---- MODULE Spec2Model ----
(***************************************************************************)
(* Simulation core of clinical-mind: CaseStateManager (clock, vitals,      *)
(* investigations, treatments), ComplicationEngine (complications and      *)
(* distractions), ClinicalValidator (safety gate) and the pipeline of      *)
(* AgentOrchestrator.process_action / advance_time.                        *)
(*                                                                         *)
(* Numbers: temperature is kept in tenths of a degree (37.0 -> 370).       *)
(* random.random() is a stream of draws d in 0..99 standing for d/100;     *)
(* the stream is fixed by the seed chosen when the session is created.     *)
(***************************************************************************)
EXTENDS Integers, Sequences, FiniteSets, TLC

VARIABLES session, rng, ret, surfaced, steps, registered, pool

vars == <<session, rng, ret, surfaced, steps, registered, pool>>

\* ------------------------------------------------------------------------
\* Bounds of the model
\* ------------------------------------------------------------------------
MaxSteps == 3

\* ------------------------------------------------------------------------
\* Arithmetic helpers
\* ------------------------------------------------------------------------
Max(a, b) == IF a >= b THEN a ELSE b

Min(a, b) == IF a <= b THEN a ELSE b

\* Python int(): truncation toward zero of n/d, d > 0
TruncDiv(n, d) == IF n >= 0 THEN n \div d ELSE -((-n) \div d)

\* ------------------------------------------------------------------------
\* Enumerations
\* ------------------------------------------------------------------------
STABLE == "stable"

IMPROVING == "improving"

DETERIORATING == "deteriorating"

CRITICAL == "critical"

PatientTrajectory == {STABLE, IMPROVING, DETERIORATING, CRITICAL}

ORDERED == "ordered"

SAMPLE_COLLECTED == "sample_collected"

PROCESSING == "processing"

READY == "ready"

DELIVERED == "delivered"

InvestigationStatus == {ORDERED, SAMPLE_COLLECTED, PROCESSING, READY, DELIVERED}

\* position of a status in the declared lifecycle order
StatusRank(s) ==
    CASE s = ORDERED -> 0
      [] s = SAMPLE_COLLECTED -> 1
      [] s = PROCESSING -> 2
      [] s = READY -> 3
      [] s = DELIVERED -> 4

\* ------------------------------------------------------------------------
\* Static tables
\* ------------------------------------------------------------------------
\* ACTION_TIME_COST.get(action_type, 10)
ACTION_TIME_COST(action_type) ==
    CASE action_type = "talk_to_patient" -> 10
      [] action_type = "ask_nurse" -> 5
      [] action_type = "consult_senior" -> 10
      [] action_type = "examine_patient" -> 15
      [] action_type = "order_investigation" -> 5
      [] action_type = "order_treatment" -> 5
      [] action_type = "team_huddle" -> 15
      [] action_type = "wait_for_results" -> 30
      [] action_type = "review_results" -> 5
      [] OTHER -> 10

\* INVESTIGATION_TURNAROUND.get(key, INVESTIGATION_TURNAROUND["_default"])
INVESTIGATION_TURNAROUND(inv_type_key) ==
    CASE inv_type_key = "cbc" ->
            [turnaround |-> 120, urgent |-> 30, label |-> "Complete Blood Count"]
      [] inv_type_key = "rft" ->
            [turnaround |-> 150, urgent |-> 45, label |-> "Renal Function Test"]
      [] inv_type_key = "lft" ->
            [turnaround |-> 150, urgent |-> 45, label |-> "Liver Function Test"]
      [] inv_type_key = "blood_sugar" ->
            [turnaround |-> 30, urgent |-> 10, label |-> "Blood Sugar (Random)"]
      [] inv_type_key = "rbs" ->
            [turnaround |-> 30, urgent |-> 10, label |-> "Random Blood Sugar"]
      [] inv_type_key = "fbs" ->
            [turnaround |-> 30, urgent |-> 10, label |-> "Fasting Blood Sugar"]
      [] inv_type_key = "urine_routine" ->
            [turnaround |-> 60, urgent |-> 20, label |-> "Urine Routine/Microscopy"]
      [] inv_type_key = "serum_electrolytes" ->
            [turnaround |-> 120, urgent |-> 30, label |-> "Serum Electrolytes"]
      [] inv_type_key = "abg" ->
            [turnaround |-> 20, urgent |-> 10, label |-> "Arterial Blood Gas"]
      [] inv_type_key = "hba1c" ->
            [turnaround |-> 180, urgent |-> 60, label |-> "HbA1c"]
      [] inv_type_key = "coagulation" ->
            [turnaround |-> 120, urgent |-> 30, label |-> "PT/INR/aPTT"]
      [] inv_type_key = "pt_inr" ->
            [turnaround |-> 120, urgent |-> 30, label |-> "PT/INR"]
      [] inv_type_key = "blood_group" ->
            [turnaround |-> 30, urgent |-> 15, label |-> "Blood Group & Rh"]
      [] inv_type_key = "crossmatch" ->
            [turnaround |-> 60, urgent |-> 30, label |-> "Crossmatch"]
      [] inv_type_key = "troponin" ->
            [turnaround |-> 90, urgent |-> 30, label |-> "Troponin I/T"]
      [] inv_type_key = "d_dimer" ->
            [turnaround |-> 120, urgent |-> 45, label |-> "D-Dimer"]
      [] inv_type_key = "bnp" ->
            [turnaround |-> 120, urgent |-> 45, label |-> "BNP/NT-proBNP"]
      [] inv_type_key = "procalcitonin" ->
            [turnaround |-> 180, urgent |-> 60, label |-> "Procalcitonin"]
      [] inv_type_key = "blood_culture" ->
            [turnaround |-> 2880, urgent |-> 2880, label |-> "Blood Culture (Prelim 24h, Final 48h)"]
      [] inv_type_key = "urine_culture" ->
            [turnaround |-> 2880, urgent |-> 2880, label |-> "Urine Culture"]
      [] inv_type_key = "csf_analysis" ->
            [turnaround |-> 120, urgent |-> 45, label |-> "CSF Analysis"]
      [] inv_type_key = "amylase" ->
            [turnaround |-> 120, urgent |-> 30, label |-> "Serum Amylase"]
      [] inv_type_key = "lipase" ->
            [turnaround |-> 120, urgent |-> 30, label |-> "Serum Lipase"]
      [] inv_type_key = "thyroid" ->
            [turnaround |-> 240, urgent |-> 120, label |-> "Thyroid Profile (T3/T4/TSH)"]
      [] inv_type_key = "dengue_ns1" ->
            [turnaround |-> 60, urgent |-> 30, label |-> "Dengue NS1 Antigen"]
      [] inv_type_key = "dengue_serology" ->
            [turnaround |-> 120, urgent |-> 60, label |-> "Dengue IgM/IgG"]
      [] inv_type_key = "malaria_smear" ->
            [turnaround |-> 60, urgent |-> 20, label |-> "Peripheral Smear for MP"]
      [] inv_type_key = "malaria_rdt" ->
            [turnaround |-> 15, urgent |-> 10, label |-> "Malaria Rapid Test"]
      [] inv_type_key = "widal" ->
            [turnaround |-> 120, urgent |-> 60, label |-> "Widal Test"]
      [] inv_type_key = "hiv" ->
            [turnaround |-> 60, urgent |-> 30, label |-> "HIV Rapid/ELISA"]
      [] inv_type_key = "hbsag" ->
            [turnaround |-> 60, urgent |-> 30, label |-> "HBsAg"]
      [] inv_type_key = "anti_hcv" ->
            [turnaround |-> 60, urgent |-> 30, label |-> "Anti-HCV"]
      [] inv_type_key = "xray_chest" ->
            [turnaround |-> 30, urgent |-> 15, label |-> "Chest X-ray PA"]
      [] inv_type_key = "xray" ->
            [turnaround |-> 30, urgent |-> 15, label |-> "X-ray"]
      [] inv_type_key = "ecg" ->
            [turnaround |-> 15, urgent |-> 5, label |-> "12-lead ECG"]
      [] inv_type_key = "ultrasound" ->
            [turnaround |-> 120, urgent |-> 30, label |-> "USG Abdomen (needs radiology call)"]
      [] inv_type_key = "echo" ->
            [turnaround |-> 240, urgent |-> 60, label |-> "2D Echocardiography"]
      [] inv_type_key = "ct_scan" ->
            [turnaround |-> 480, urgent |-> 120, label |-> "CT Scan (may need referral)"]
      [] inv_type_key = "mri" ->
            [turnaround |-> 1440, urgent |-> 480, label |-> "MRI (usually needs referral)"]
      [] OTHER ->
            [turnaround |-> 180, urgent |-> 60, label |-> "Investigation"]

\* SPECIALTY_COMPLICATIONS["emergency"]; probability_base in hundredths
EmergencyComplications ==
    << [name |-> "Hemorrhagic Shock", probability_base |-> 15,
        min_t |-> 15, max_t |-> 120,
        vitals_criteria |-> {<<"hr_above", 120>>, <<"bp_systolic_below", 80>>},
        urgency |-> "critical", trajectory_effect |-> "critical"],
       [name |-> "Anaphylaxis", probability_base |-> 5,
        min_t |-> 5, max_t |-> 45,
        vitals_criteria |-> {<<"bp_systolic_below", 90>>, <<"spo2_below", 92>>},
        urgency |-> "critical", trajectory_effect |-> "critical"],
       [name |-> "Rhabdomyolysis - Acute Kidney Injury", probability_base |-> 8,
        min_t |-> 60, max_t |-> 360,
        vitals_criteria |-> {<<"hr_above", 100>>},
        urgency |-> "urgent", trajectory_effect |-> "deteriorating"],
       [name |-> "Compartment Syndrome", probability_base |-> 8,
        min_t |-> 30, max_t |-> 240,
        vitals_criteria |-> {<<"hr_above", 100>>},
        urgency |-> "critical", trajectory_effect |-> "deteriorating"] >>

\* DISTRACTION_EVENTS; probability in hundredths
DISTRACTION_EVENTS ==
    << [name |-> "Another Patient Emergency", min_time |-> 30, max_time |-> 180, probability |-> 3],
       [name |-> "Relative Confrontation", min_time |-> 20, max_time |-> 120, probability |-> 4],
       [name |-> "Phone Call from Lab", min_time |-> 30, max_time |-> 180, probability |-> 5],
       [name |-> "Equipment Failure", min_time |-> 15, max_time |-> 120, probability |-> 3],
       [name |-> "Blood Bank Delay", min_time |-> 30, max_time |-> 120, probability |-> 4] >>

\* ------------------------------------------------------------------------
\* The random stream
\* ------------------------------------------------------------------------
\* the n-th next draw of the stream, a value in 0..99
Draw(r, n) == r.tape[((r.pos + n) % Len(r.tape)) + 1]

\* the stream after k draws were consumed
Consume(r, k) == [r EXCEPT !.pos = (r.pos + k) % Len(r.tape)]

\* random.choice(seq) for a draw d
Choice(seq, d) == seq[((d * Len(seq)) \div 100) + 1]

\* ------------------------------------------------------------------------
\* CaseStateManager
\* ------------------------------------------------------------------------
\* the clamp block that ends _evolve_vitals
ClampVitals(v) ==
    [bp_systolic |-> Max(50, Min(220, v.bp_systolic)),
     bp_diastolic |-> Max(30, Min(130, v.bp_diastolic)),
     hr |-> Max(30, Min(200, v.hr)),
     rr |-> Max(6, Min(50, v.rr)),
     temp |-> Max(350, Min(420, v.temp)),
     spo2 |-> Max(60, Min(100, v.spo2))]

\* (trajectory, temp, minutes) whose exact new temperature lies halfway
\* between two tenths and for which the double arithmetic of the source
\* rounds upward; every other halfway case rounds downward
TempTieUp ==
    { <<DETERIORATING, 357, 30>>, <<DETERIORATING, 367, 30>>, <<DETERIORATING, 377, 30>>,
      <<DETERIORATING, 387, 30>>, <<DETERIORATING, 397, 30>>, <<DETERIORATING, 407, 30>>,
      <<IMPROVING, 380, 30>>, <<IMPROVING, 390, 15>>, <<IMPROVING, 400, 10>>,
      <<IMPROVING, 400, 30>>, <<IMPROVING, 420, 30>> }

\* round(max(35.0, min(42.0, x)), 1) for x = n/600 tenths
RoundTemp(n, trajectory, temp, minutes) ==
    LET c == Max(350 * 600, Min(420 * 600, n))
        q == c \div 600
        rem == c - 600 * q
    IN  IF 2 * rem < 600 THEN q
        ELSE IF 2 * rem > 600 THEN q + 1
        ELSE IF <<trajectory, temp, minutes>> \in TempTieUp THEN q + 1 ELSE q

\* _evolve_vitals: the trajectory branch, then the clamp; r is the stream
\* the jitter draws are taken from
evolve_vitals(v, trajectory, minutes_passed, r) ==
    LET m == minutes_passed
        w == CASE trajectory = DETERIORATING ->
                    [v EXCEPT
                       !.hr = Min(180, v.hr + TruncDiv(5 * m + 2 * Draw(r, 0), 100)),
                       !.rr = Min(45, v.rr + TruncDiv(10 * m + 3 * Draw(r, 1), 300)),
                       !.spo2 = Max(70, v.spo2 - TruncDiv(5 * m + 3 * Draw(r, 2), 300)),
                       !.bp_systolic = Max(60, v.bp_systolic - TruncDiv(m, 30)),
                       !.temp = RoundTemp(Min(410 * 600, 600 * v.temp + 10 * m),
                                          trajectory, v.temp, m)]
               [] trajectory = IMPROVING ->
                    [v EXCEPT
                       !.hr = v.hr + TruncDiv((80 - v.hr) * m, 600),
                       !.rr = v.rr + TruncDiv((16 - v.rr) * m, 600),
                       !.spo2 = Min(100, v.spo2 + TruncDiv((98 - v.spo2) * m, 600)),
                       !.bp_systolic = v.bp_systolic + TruncDiv((120 - v.bp_systolic) * m, 600),
                       !.temp = RoundTemp(600 * v.temp + (370 - v.temp) * m,
                                          trajectory, v.temp, m)]
               [] trajectory = CRITICAL ->
                    [v EXCEPT
                       !.hr = Min(200, v.hr + TruncDiv(m, 6)),
                       !.rr = Min(50, v.rr + TruncDiv(m, 10)),
                       !.spo2 = Max(60, v.spo2 - TruncDiv(m, 10)),
                       !.bp_systolic = Max(50, v.bp_systolic - TruncDiv(m, 6))]
               [] OTHER ->
                    [v EXCEPT
                       !.hr = v.hr + Choice(<<-1, 0, 0, 1>>, Draw(r, 0)),
                       !.rr = v.rr + Choice(<<-1, 0, 0, 0, 1>>, Draw(r, 1))]
    IN  ClampVitals(w)

\* number of draws _evolve_vitals takes from the stream
EvolveDraws(trajectory) ==
    CASE trajectory = DETERIORATING -> 3
      [] trajectory = STABLE -> 2
      [] OTHER -> 0

\* SimulationEvent created by the state manager; subject names the
\* investigation the event is about (NoSubject for the alerts)
NoSubject == -1

StateEvent(s, event_type, title, agent_type, subject) ==
    [event_id |-> <<"evt", s.next_event_id>>,
     timestamp |-> s.elapsed_minutes,
     event_type |-> event_type,
     title |-> title,
     agent_type |-> agent_type,
     subject |-> subject,
     delivered |-> FALSE]

\* c = [s |-> session state, out |-> ids of the events a call returns]:
\* append the event to self.events and to the returned list
Emit(c, e) ==
    [s |-> [c.s EXCEPT !.events = Append(@, e),
                       !.next_event_id = @ + 1],
     out |-> Append(c.out, e.event_id)]

\* variant: the status guard of the loop is missing, a Ready investigation
\* is announced again
CheckOneInvestigation_NoStatusGuard(c, i) ==
    LET inv == c.s.investigations[i]
        time_since_order == c.s.elapsed_minutes - inv.ordered_at
    IN  IF time_since_order >= inv.turnaround
        THEN Emit([c EXCEPT !.s.investigations[i].status = READY],
                  StateEvent(c.s, "investigation_ready",
                             <<inv.label, " Results Ready">>, "nurse", i))
        ELSE IF 2 * time_since_order >= inv.turnaround /\ inv.status = ORDERED
             THEN [c EXCEPT !.s.investigations[i].status = PROCESSING]
             ELSE c

\* variant: the half-turnaround test is strict
CheckOneInvestigation_StrictHalf(c, i) ==
    LET inv == c.s.investigations[i]
        time_since_order == c.s.elapsed_minutes - inv.ordered_at
    IN  IF inv.status \in {ORDERED, SAMPLE_COLLECTED, PROCESSING}
        THEN IF time_since_order >= inv.turnaround
             THEN Emit([c EXCEPT !.s.investigations[i].status = READY],
                       StateEvent(c.s, "investigation_ready",
                                  <<inv.label, " Results Ready">>, "nurse", i))
             ELSE IF 2 * time_since_order > inv.turnaround /\ inv.status = ORDERED
                  THEN [c EXCEPT !.s.investigations[i].status = PROCESSING]
                  ELSE c
        ELSE c

\* variant: the guards are flattened, a Ready investigation falls into the
\* Processing branch
CheckOneInvestigation_FlatGuards(c, i) ==
    LET inv == c.s.investigations[i]
        time_since_order == c.s.elapsed_minutes - inv.ordered_at
    IN  IF time_since_order >= inv.turnaround /\ inv.status # READY
        THEN Emit([c EXCEPT !.s.investigations[i].status = READY],
                  StateEvent(c.s, "investigation_ready",
                             <<inv.label, " Results Ready">>, "nurse", i))
        ELSE IF 2 * time_since_order >= inv.turnaround
             THEN [c EXCEPT !.s.investigations[i].status = PROCESSING]
             ELSE c

\* one iteration of the loop of _check_investigations, on investigation i
CheckOneInvestigation(c, i) ==
    LET inv == c.s.investigations[i]
        time_since_order == c.s.elapsed_minutes - inv.ordered_at
    IN  IF inv.status \in {ORDERED, SAMPLE_COLLECTED, PROCESSING}
        THEN IF time_since_order >= inv.turnaround
             THEN Emit([c EXCEPT !.s.investigations[i].status = READY],
                       StateEvent(c.s, "investigation_ready",
                                  <<inv.label, " Results Ready">>, "nurse", i))
             ELSE IF 2 * time_since_order >= inv.turnaround /\ inv.status = ORDERED
                  THEN [c EXCEPT !.s.investigations[i].status = PROCESSING]
                  ELSE c
        ELSE c

RECURSIVE CheckInvestigationsFrom(_, _)
CheckInvestigationsFrom(c, i) ==
    IF i > Len(c.s.investigations) THEN c
    ELSE CheckInvestigationsFrom(CheckOneInvestigation(c, i), i + 1)

\* _check_investigations
check_investigations(c) == CheckInvestigationsFrom(c, 1)

\* the keys of _check_patient_events that occur in
\* title.lower().replace(" ", "_")
TitleKeys(title) ==
    IF title[1] # "" THEN {}
    ELSE CASE title[2] = "Critical SpO2 Alert" -> {"critical_spo2"}
           [] title[2] = "Tachycardia Alert" -> {"tachycardia_alert"}
           [] title[2] = "Hypotension Alert" -> {"hypotension_alert"}
           [] OTHER -> {}

\* variant: only the event ids are compared with the key, the titles are
\* not looked at
event_delivered_IdOnly(s, event_key) ==
    \E k \in 1..Len(s.events) : s.events[k].event_id[1] = event_key

\* _event_delivered: no event id ends with one of the keys
event_delivered(s, event_key) ==
    \E k \in 1..Len(s.events) : event_key \in TitleKeys(s.events[k].title)

\* _check_patient_events
SpO2Alert(c) ==
    IF c.s.current_vitals.spo2 < 88 /\ ~event_delivered(c.s, "critical_spo2")
    THEN Emit(c, StateEvent(c.s, "nurse_alert", <<"", "Critical SpO2 Alert">>,
                            "nurse", NoSubject))
    ELSE c

TachycardiaAlert(c) ==
    IF c.s.current_vitals.hr > 140 /\ ~event_delivered(c.s, "tachycardia_alert")
    THEN Emit(c, StateEvent(c.s, "nurse_alert", <<"", "Tachycardia Alert">>,
                            "nurse", NoSubject))
    ELSE c

HypotensionAlert(c) ==
    IF c.s.current_vitals.bp_systolic < 80 /\ ~event_delivered(c.s, "hypotension_alert")
    THEN Emit(c, StateEvent(c.s, "nurse_alert", <<"", "Hypotension Alert">>,
                            "nurse", NoSubject))
    ELSE c

SeniorConcern(c) ==
    IF /\ c.s.trajectory = DETERIORATING
       /\ c.s.elapsed_minutes > 30
       /\ Len(c.s.treatments) = 0
       /\ ~event_delivered(c.s, "no_treatment_warning")
    THEN Emit(c, StateEvent(c.s, "senior_concern", <<"", "Senior Doctor Concern">>,
                            "senior_doctor", NoSubject))
    ELSE c

\* the four tests in the order of the source
check_patient_events(c) ==
    SeniorConcern(HypotensionAlert(TachycardiaAlert(SpO2Alert(c))))

\* the snapshot appended to vitals_history
Snapshot(s) == [time |-> s.elapsed_minutes, vitals |-> s.current_vitals]

\* CaseStateManager.advance_time: clock, vitals, investigations, patient
\* events, snapshot; returns the state and the triggered events
AdvanceClock(s, minutes) == [s EXCEPT !.elapsed_minutes = @ + minutes]

EvolveState(s, minutes, r) ==
    [s EXCEPT !.current_vitals = evolve_vitals(@, s.trajectory, minutes, r)]

AppendSnapshot(s) == [s EXCEPT !.vitals_history = Append(@, Snapshot(s))]

RecordSnapshot(c) == [c EXCEPT !.s = AppendSnapshot(c.s)]

\* the clock moved by minutes, the vitals evolved, then the investigation
\* and patient-event checks
TickState(s, minutes, r) ==
    check_patient_events(check_investigations(
        [s |-> EvolveState(AdvanceClock(s, minutes), minutes, r), out |-> <<>>]))

\* variant: step 4, the snapshot, is left out
sm_advance_time_NoSnapshot(s, action_type, r) ==
    TickState(s, ACTION_TIME_COST(action_type), r)

sm_advance_time(s, action_type, r) ==
    RecordSnapshot(TickState(s, ACTION_TIME_COST(action_type), r))

\* orchestrator._parse_investigation_type on the modelled order texts
\* (first keyword of the mapping that occurs in the lower-cased text)
parse_investigation_type(description) ==
    CASE description = "ecg" -> "ecg"
      [] description = "urgent ecg" -> "ecg"
      [] description = "abg" -> "abg"
      [] description = "stat abg" -> "abg"
      [] description = "chest x-ray" -> "xray_chest"
      [] description = "serum ferritin" -> "serum_ferritin"

\* any(w in description.lower() for w in ["urgent", "stat", ...])
IsUrgentText(description) == description \in {"urgent ecg", "stat abg"}

\* ------------------------------------------------------------------------
\* Order texts character by character: a text is the sequence of its
\* characters
\* ------------------------------------------------------------------------
\* str.lower on one character
Lower(c) ==
    CASE c = "A" -> "a"
      [] c = "B" -> "b"
      [] c = "C" -> "c"
      [] c = "D" -> "d"
      [] c = "E" -> "e"
      [] c = "F" -> "f"
      [] c = "G" -> "g"
      [] c = "H" -> "h"
      [] c = "I" -> "i"
      [] c = "J" -> "j"
      [] c = "K" -> "k"
      [] c = "L" -> "l"
      [] c = "M" -> "m"
      [] c = "N" -> "n"
      [] c = "O" -> "o"
      [] c = "P" -> "p"
      [] c = "Q" -> "q"
      [] c = "R" -> "r"
      [] c = "S" -> "s"
      [] c = "T" -> "t"
      [] c = "U" -> "u"
      [] c = "V" -> "v"
      [] c = "W" -> "w"
      [] c = "X" -> "x"
      [] c = "Y" -> "y"
      [] c = "Z" -> "z"
      [] OTHER -> c

\* description.lower()
LowerText(t) == [k \in 1..Len(t) |-> Lower(t[k])]

\* str.strip
Strip(t) ==
    LET inked == {k \in 1..Len(t) : t[k] # " "}
    IN  IF inked = {} THEN <<>>
        ELSE SubSeq(t, CHOOSE k \in inked : \A j \in inked : k <= j,
                       CHOOSE k \in inked : \A j \in inked : k >= j)

\* w in t
Contains(t, w) == \E k \in 0..(Len(t) - Len(w)) : SubSeq(t, k + 1, k + Len(w)) = w

\* t.replace(a, b) for single characters a and b
ReplaceChar(t, a, b) == [k \in 1..Len(t) |-> IF t[k] = a THEN b ELSE t[k]]

\* the mappings of _parse_investigation_type in the order of the dict:
\* <<keyword, investigation type>>, both character by character
InvestigationMappings ==
    << <<<<"c", "b", "c">>, <<"c", "b", "c">>>>,
       <<<<"c", "o", "m", "p", "l", "e", "t", "e", " ", "b", "l", "o", "o", "d", " ", "c", "o", "u", "n", "t">>, <<"c", "b", "c">>>>,
       <<<<"b", "l", "o", "o", "d", " ", "c", "o", "u", "n", "t">>, <<"c", "b", "c">>>>,
       <<<<"h", "e", "m", "o", "g", "r", "a", "m">>, <<"c", "b", "c">>>>,
       <<<<"r", "f", "t">>, <<"r", "f", "t">>>>,
       <<<<"r", "e", "n", "a", "l", " ", "f", "u", "n", "c", "t", "i", "o", "n">>, <<"r", "f", "t">>>>,
       <<<<"k", "i", "d", "n", "e", "y", " ", "f", "u", "n", "c", "t", "i", "o", "n">>, <<"r", "f", "t">>>>,
       <<<<"c", "r", "e", "a", "t", "i", "n", "i", "n", "e">>, <<"r", "f", "t">>>>,
       <<<<"l", "f", "t">>, <<"l", "f", "t">>>>,
       <<<<"l", "i", "v", "e", "r", " ", "f", "u", "n", "c", "t", "i", "o", "n">>, <<"l", "f", "t">>>>,
       <<<<"b", "i", "l", "i", "r", "u", "b", "i", "n">>, <<"l", "f", "t">>>>,
       <<<<"s", "g", "p", "t">>, <<"l", "f", "t">>>>,
       <<<<"b", "l", "o", "o", "d", " ", "s", "u", "g", "a", "r">>, <<"b", "l", "o", "o", "d", "_", "s", "u", "g", "a", "r">>>>,
       <<<<"r", "b", "s">>, <<"r", "b", "s">>>>,
       <<<<"f", "b", "s">>, <<"f", "b", "s">>>>,
       <<<<"a", "b", "g">>, <<"a", "b", "g">>>>,
       <<<<"a", "r", "t", "e", "r", "i", "a", "l", " ", "b", "l", "o", "o", "d", " ", "g", "a", "s">>, <<"a", "b", "g">>>>,
       <<<<"b", "l", "o", "o", "d", " ", "g", "a", "s">>, <<"a", "b", "g">>>>,
       <<<<"e", "c", "g">>, <<"e", "c", "g">>>>,
       <<<<"e", "k", "g">>, <<"e", "c", "g">>>>,
       <<<<"e", "l", "e", "c", "t", "r", "o", "c", "a", "r", "d", "i", "o", "g", "r", "a", "m">>, <<"e", "c", "g">>>>,
       <<<<"c", "h", "e", "s", "t", " ", "x", "-", "r", "a", "y">>, <<"x", "r", "a", "y", "_", "c", "h", "e", "s", "t">>>>,
       <<<<"c", "x", "r">>, <<"x", "r", "a", "y", "_", "c", "h", "e", "s", "t">>>>,
       <<<<"c", "h", "e", "s", "t", " ", "x", "r", "a", "y">>, <<"x", "r", "a", "y", "_", "c", "h", "e", "s", "t">>>>,
       <<<<"x", "-", "r", "a", "y">>, <<"x", "r", "a", "y">>>>,
       <<<<"x", "r", "a", "y">>, <<"x", "r", "a", "y">>>>,
       <<<<"u", "l", "t", "r", "a", "s", "o", "u", "n", "d">>, <<"u", "l", "t", "r", "a", "s", "o", "u", "n", "d">>>>,
       <<<<"u", "s", "g">>, <<"u", "l", "t", "r", "a", "s", "o", "u", "n", "d">>>>,
       <<<<"e", "c", "h", "o">>, <<"e", "c", "h", "o">>>>,
       <<<<"e", "c", "h", "o", "c", "a", "r", "d", "i", "o", "g", "r", "a", "p", "h", "y">>, <<"e", "c", "h", "o">>>>,
       <<<<"2", "d", " ", "e", "c", "h", "o">>, <<"e", "c", "h", "o">>>>,
       <<<<"c", "t", " ", "s", "c", "a", "n">>, <<"c", "t", "_", "s", "c", "a", "n">>>>,
       <<<<"c", "t">>, <<"c", "t", "_", "s", "c", "a", "n">>>>,
       <<<<"m", "r", "i">>, <<"m", "r", "i">>>>,
       <<<<"t", "r", "o", "p", "o", "n", "i", "n">>, <<"t", "r", "o", "p", "o", "n", "i", "n">>>>,
       <<<<"d", "-", "d", "i", "m", "e", "r">>, <<"d", "_", "d", "i", "m", "e", "r">>>>,
       <<<<"d", " ", "d", "i", "m", "e", "r">>, <<"d", "_", "d", "i", "m", "e", "r">>>>,
       <<<<"b", "l", "o", "o", "d", " ", "c", "u", "l", "t", "u", "r", "e">>, <<"b", "l", "o", "o", "d", "_", "c", "u", "l", "t", "u", "r", "e">>>>,
       <<<<"u", "r", "i", "n", "e", " ", "r", "o", "u", "t", "i", "n", "e">>, <<"u", "r", "i", "n", "e", "_", "r", "o", "u", "t", "i", "n", "e">>>>,
       <<<<"u", "r", "i", "n", "e", " ", "c", "u", "l", "t", "u", "r", "e">>, <<"u", "r", "i", "n", "e", "_", "c", "u", "l", "t", "u", "r", "e">>>>,
       <<<<"e", "l", "e", "c", "t", "r", "o", "l", "y", "t", "e", "s">>, <<"s", "e", "r", "u", "m", "_", "e", "l", "e", "c", "t", "r", "o", "l", "y", "t", "e", "s">>>>,
       <<<<"s", "o", "d", "i", "u", "m">>, <<"s", "e", "r", "u", "m", "_", "e", "l", "e", "c", "t", "r", "o", "l", "y", "t", "e", "s">>>>,
       <<<<"c", "o", "a", "g", "u", "l", "a", "t", "i", "o", "n">>, <<"c", "o", "a", "g", "u", "l", "a", "t", "i", "o", "n">>>>,
       <<<<"p", "t", " ", "i", "n", "r">>, <<"p", "t", "_", "i", "n", "r">>>>,
       <<<<"p", "t", "/", "i", "n", "r">>, <<"p", "t", "_", "i", "n", "r">>>>,
       <<<<"t", "h", "y", "r", "o", "i", "d">>, <<"t", "h", "y", "r", "o", "i", "d">>>>,
       <<<<"t", "f", "t">>, <<"t", "h", "y", "r", "o", "i", "d">>>>,
       <<<<"t", "s", "h">>, <<"t", "h", "y", "r", "o", "i", "d">>>>,
       <<<<"h", "b", "a", "1", "c">>, <<"h", "b", "a", "1", "c">>>>,
       <<<<"a", "m", "y", "l", "a", "s", "e">>, <<"a", "m", "y", "l", "a", "s", "e">>>>,
       <<<<"l", "i", "p", "a", "s", "e">>, <<"l", "i", "p", "a", "s", "e">>>>,
       <<<<"d", "e", "n", "g", "u", "e">>, <<"d", "e", "n", "g", "u", "e", "_", "n", "s", "1">>>>,
       <<<<"n", "s", "1">>, <<"d", "e", "n", "g", "u", "e", "_", "n", "s", "1">>>>,
       <<<<"m", "a", "l", "a", "r", "i", "a">>, <<"m", "a", "l", "a", "r", "i", "a", "_", "s", "m", "e", "a", "r">>>>,
       <<<<"p", "e", "r", "i", "p", "h", "e", "r", "a", "l", " ", "s", "m", "e", "a", "r">>, <<"m", "a", "l", "a", "r", "i", "a", "_", "s", "m", "e", "a", "r">>>>,
       <<<<"w", "i", "d", "a", "l">>, <<"w", "i", "d", "a", "l">>>>,
       <<<<"h", "i", "v">>, <<"h", "i", "v">>>>,
       <<<<"h", "b", "s", "a", "g">>, <<"h", "b", "s", "a", "g">>>>,
       <<<<"c", "s", "f">>, <<"c", "s", "f", "_", "a", "n", "a", "l", "y", "s", "i", "s">>>>,
       <<<<"l", "u", "m", "b", "a", "r", " ", "p", "u", "n", "c", "t", "u", "r", "e">>, <<"c", "s", "f", "_", "a", "n", "a", "l", "y", "s", "i", "s">>>>,
       <<<<"b", "l", "o", "o", "d", " ", "g", "r", "o", "u", "p">>, <<"b", "l", "o", "o", "d", "_", "g", "r", "o", "u", "p">>>>,
       <<<<"c", "r", "o", "s", "s", "m", "a", "t", "c", "h">>, <<"c", "r", "o", "s", "s", "m", "a", "t", "c", "h">>>>,
       <<<<"p", "r", "o", "c", "a", "l", "c", "i", "t", "o", "n", "i", "n">>, <<"p", "r", "o", "c", "a", "l", "c", "i", "t", "o", "n", "i", "n">>>>,
       <<<<"b", "n", "p">>, <<"b", "n", "p">>>> >>

\* the test of the loop: keyword in desc
KeywordIn(keyword, desc) == Contains(desc, keyword)

\* _parse_investigation_type: the type of the first keyword found in the
\* lower-cased, stripped text, else the text with "_" for " ", cut at 30
parse_investigation_text(description) ==
    LET desc == Strip(LowerText(description))
        hits == {k \in 1..Len(InvestigationMappings) :
                    KeywordIn(InvestigationMappings[k][1], desc)}
    IN  IF hits = {}
        THEN SubSeq(ReplaceChar(desc, " ", "_"), 1, Min(30, Len(desc)))
        ELSE InvestigationMappings[CHOOSE k \in hits : \A j \in hits : k <= j][2]

\* the words that make an order urgent
UrgentWords ==
    { <<"u", "r", "g", "e", "n", "t">>, <<"s", "t", "a", "t">>,
      <<"e", "m", "e", "r", "g", "e", "n", "c", "y">>,
      <<"i", "m", "m", "e", "d", "i", "a", "t", "e", "l", "y">> }

\* any(w in description.lower() for w in [...])
is_urgent_text(description) == \E w \in UrgentWords : Contains(LowerText(description), w)

\* the first line of order_investigation
NormalKey(investigation_type) ==
    ReplaceChar(ReplaceChar(LowerText(investigation_type), " ", "_"), "-", "_")

\* the keys of INVESTIGATION_TURNAROUND, character by character and as the
\* key itself
TurnaroundKeys ==
    << <<<<"c", "b", "c">>, "cbc">>,
       <<<<"r", "f", "t">>, "rft">>,
       <<<<"l", "f", "t">>, "lft">>,
       <<<<"b", "l", "o", "o", "d", "_", "s", "u", "g", "a", "r">>, "blood_sugar">>,
       <<<<"r", "b", "s">>, "rbs">>,
       <<<<"f", "b", "s">>, "fbs">>,
       <<<<"u", "r", "i", "n", "e", "_", "r", "o", "u", "t", "i", "n", "e">>, "urine_routine">>,
       <<<<"s", "e", "r", "u", "m", "_", "e", "l", "e", "c", "t", "r", "o", "l", "y", "t", "e", "s">>, "serum_electrolytes">>,
       <<<<"a", "b", "g">>, "abg">>,
       <<<<"h", "b", "a", "1", "c">>, "hba1c">>,
       <<<<"c", "o", "a", "g", "u", "l", "a", "t", "i", "o", "n">>, "coagulation">>,
       <<<<"p", "t", "_", "i", "n", "r">>, "pt_inr">>,
       <<<<"b", "l", "o", "o", "d", "_", "g", "r", "o", "u", "p">>, "blood_group">>,
       <<<<"c", "r", "o", "s", "s", "m", "a", "t", "c", "h">>, "crossmatch">>,
       <<<<"t", "r", "o", "p", "o", "n", "i", "n">>, "troponin">>,
       <<<<"d", "_", "d", "i", "m", "e", "r">>, "d_dimer">>,
       <<<<"b", "n", "p">>, "bnp">>,
       <<<<"p", "r", "o", "c", "a", "l", "c", "i", "t", "o", "n", "i", "n">>, "procalcitonin">>,
       <<<<"b", "l", "o", "o", "d", "_", "c", "u", "l", "t", "u", "r", "e">>, "blood_culture">>,
       <<<<"u", "r", "i", "n", "e", "_", "c", "u", "l", "t", "u", "r", "e">>, "urine_culture">>,
       <<<<"c", "s", "f", "_", "a", "n", "a", "l", "y", "s", "i", "s">>, "csf_analysis">>,
       <<<<"a", "m", "y", "l", "a", "s", "e">>, "amylase">>,
       <<<<"l", "i", "p", "a", "s", "e">>, "lipase">>,
       <<<<"t", "h", "y", "r", "o", "i", "d">>, "thyroid">>,
       <<<<"d", "e", "n", "g", "u", "e", "_", "n", "s", "1">>, "dengue_ns1">>,
       <<<<"d", "e", "n", "g", "u", "e", "_", "s", "e", "r", "o", "l", "o", "g", "y">>, "dengue_serology">>,
       <<<<"m", "a", "l", "a", "r", "i", "a", "_", "s", "m", "e", "a", "r">>, "malaria_smear">>,
       <<<<"m", "a", "l", "a", "r", "i", "a", "_", "r", "d", "t">>, "malaria_rdt">>,
       <<<<"w", "i", "d", "a", "l">>, "widal">>,
       <<<<"h", "i", "v">>, "hiv">>,
       <<<<"h", "b", "s", "a", "g">>, "hbsag">>,
       <<<<"a", "n", "t", "i", "_", "h", "c", "v">>, "anti_hcv">>,
       <<<<"x", "r", "a", "y", "_", "c", "h", "e", "s", "t">>, "xray_chest">>,
       <<<<"x", "r", "a", "y">>, "xray">>,
       <<<<"e", "c", "g">>, "ecg">>,
       <<<<"u", "l", "t", "r", "a", "s", "o", "u", "n", "d">>, "ultrasound">>,
       <<<<"e", "c", "h", "o">>, "echo">>,
       <<<<"c", "t", "_", "s", "c", "a", "n">>, "ct_scan">>,
       <<<<"m", "r", "i">>, "mri">> >>

\* a type that is no key of the table
Unlisted == "(unlisted)"

\* the key of INVESTIGATION_TURNAROUND that equals the text, Unlisted when
\* no key does
TableKey(t) ==
    LET hits == {k \in 1..Len(TurnaroundKeys) : TurnaroundKeys[k][1] = t}
    IN  IF hits = {} THEN Unlisted ELSE TurnaroundKeys[CHOOSE k \in hits : TRUE][2]

\* order_investigation: the type key is already in normal form
order_investigation(s, investigation_type, is_urgent) ==
    LET inv_info == INVESTIGATION_TURNAROUND(investigation_type)
        turnaround == IF is_urgent THEN inv_info.urgent ELSE inv_info.turnaround
        investigation == [investigation_id |-> s.next_inv_id,
                          investigation_type |-> investigation_type,
                          label |-> inv_info.label,
                          ordered_at |-> s.elapsed_minutes,
                          turnaround |-> turnaround,
                          status |-> ORDERED,
                          is_urgent |-> is_urgent]
    IN  [s EXCEPT !.investigations = Append(@, investigation),
                  !.next_inv_id = @ + 1]

\* _process_investigation on a text: type, urgency, then the order
order_investigation_text(s, description) ==
    order_investigation(s, TableKey(NormalKey(parse_investigation_text(description))),
                        is_urgent_text(description))

\* effects.get(key) with "key in effects"
HasEffect(effects, key) == key \in DOMAIN effects

\* _apply_treatment_effects
ApplyChange(v, effects, key, field, lo, hi) ==
    IF HasEffect(effects, key)
    THEN [v EXCEPT ![field] = Max(lo, Min(hi, v[field] + effects[key]))]
    ELSE v

\* the five "if ... in effects" updates, in the order of the source
ApplyChanges(v, effects) ==
    ApplyChange(
      ApplyChange(
        ApplyChange(
          ApplyChange(
            ApplyChange(v, effects, "hr_change", "hr", 40, 180),
            effects, "bp_systolic_change", "bp_systolic", 60, 200),
          effects, "spo2_change", "spo2", 60, 100),
        effects, "rr_change", "rr", 8, 40),
      effects, "temp_change", "temp", 350, 420)

\* variant: an appropriate treatment lifts a Deteriorating patient straight
\* to Improving
apply_treatment_effects_DirectlyImproving(s, effects, is_appropriate) ==
    IF is_appropriate
    THEN [s EXCEPT !.trajectory = IF @ \in {DETERIORATING, STABLE} THEN IMPROVING
                                  ELSE IF @ = CRITICAL THEN STABLE
                                  ELSE @,
                   !.current_vitals = ApplyChanges(@, effects)]
    ELSE [s EXCEPT !.trajectory =
              IF s.trajectory = STABLE THEN DETERIORATING
              ELSE IF s.trajectory = DETERIORATING THEN CRITICAL
              ELSE s.trajectory]

apply_treatment_effects(s, effects, is_appropriate) ==
    IF is_appropriate
    THEN [s EXCEPT !.trajectory = IF @ \in {DETERIORATING, CRITICAL} THEN STABLE
                                  ELSE IF @ = STABLE THEN IMPROVING
                                  ELSE @,
                   !.current_vitals = ApplyChanges(@, effects)]
    ELSE [s EXCEPT !.trajectory =
              IF s.trajectory = STABLE THEN DETERIORATING
              ELSE IF s.trajectory = DETERIORATING THEN CRITICAL
              ELSE s.trajectory]

\* record_treatment
record_treatment(s, description, effects, is_appropriate) ==
    LET record == [treatment_id |-> Len(s.treatments),
                   description |-> description,
                   ordered_at |-> s.elapsed_minutes,
                   effects |-> effects,
                   is_appropriate |-> is_appropriate]
    IN  apply_treatment_effects([s EXCEPT !.treatments = Append(@, record)],
                                effects, is_appropriate)

\* ------------------------------------------------------------------------
\* ComplicationEngine
\* ------------------------------------------------------------------------
\* _get_specialty_complications for specialty "emergency" and a diagnosis
\* that holds none of the boosted keywords
possible_complications == EmergencyComplications

\* (complication, treatment description) pairs for which
\* _collect_treatment_keywords and _is_treated report a match
TreatedPairs ==
    { <<"Hemorrhagic Shock", "iv fluids normal saline">>,
      <<"Rhabdomyolysis - Acute Kidney Injury", "iv fluids normal saline">>,
      <<"Anaphylaxis", "adrenaline 0.5mg im">>,
      <<"Septic Shock", "iv fluids normal saline">>,
      <<"Septic Shock", "adrenaline 0.5mg im">> }

\* _is_treated over the keywords collected from all recorded treatments
is_treated(complication, treatments) ==
    \E k \in 1..Len(treatments) :
        <<complication.name, treatments[k].description>> \in TreatedPairs

\* the difficulty multiplier, in halves
DifficultyHalves(difficulty) ==
    CASE difficulty = "beginner" -> 1
      [] difficulty = "intermediate" -> 2
      [] difficulty = "advanced" -> 3
      [] OTHER -> 2

\* one criterion of _evaluate_vitals_criteria
CriterionMet(criterion, v) ==
    CASE criterion[1] = "bp_systolic_below" -> v.bp_systolic < criterion[2]
      [] criterion[1] = "bp_systolic_above" -> v.bp_systolic > criterion[2]
      [] criterion[1] = "hr_above" -> v.hr > criterion[2]
      [] criterion[1] = "hr_below" -> v.hr < criterion[2]
      [] criterion[1] = "spo2_below" -> v.spo2 < criterion[2]
      [] criterion[1] = "rr_above" -> v.rr > criterion[2]
      [] criterion[1] = "temp_above" -> v.temp > 10 * criterion[2]
      [] criterion[1] = "temp_below" -> v.temp < 10 * criterion[2]
      [] OTHER -> FALSE

\* number of criteria met; _evaluate_vitals_criteria returns 1.5 ^ this
CriteriaMet(complication, v) ==
    Cardinality({c \in complication.vitals_criteria : CriterionMet(c, v)})

RECURSIVE Pow(_, _)
Pow(b, e) == IF e = 0 THEN 1 ELSE b * Pow(b, e - 1)

\* variant: the treatment reduction is 0.5 instead of 0.05
UncappedProbability_HalfReduction(complication, elapsed, treated, v, difficulty) ==
    LET window_duration == Max(complication.max_t - complication.min_t, 1)
        time_into_window == elapsed - complication.min_t
        ramp == 4 * time_into_window <= 3 * window_duration
        tfn == IF ramp THEN 4 * time_into_window ELSE 1
        tfd == IF ramp THEN 3 * window_duration ELSE 1
        k == CriteriaMet(complication, v)
    IN  [num |-> complication.probability_base * tfn * DifficultyHalves(difficulty) * Pow(3, k),
         den |-> 100 * tfd * 2 * (IF treated THEN 2 ELSE 1) * Pow(2, k)]

\* _calculate_probability before the cap, as the fraction num/den
UncappedProbability(complication, elapsed, treated, v, difficulty) ==
    LET window_duration == Max(complication.max_t - complication.min_t, 1)
        time_into_window == elapsed - complication.min_t
        \* time_factor = tfn/tfd, peak_point = window_duration * 0.75
        ramp == 4 * time_into_window <= 3 * window_duration
        tfn == IF ramp THEN 4 * time_into_window ELSE 1
        tfd == IF ramp THEN 3 * window_duration ELSE 1
        k == CriteriaMet(complication, v)
    IN  [num |-> complication.probability_base * tfn * DifficultyHalves(difficulty) * Pow(3, k),
         den |-> 100 * tfd * 2 * (IF treated THEN 20 ELSE 1) * Pow(2, k)]

RECURSIVE GCD(_, _)
GCD(a, b) == IF b = 0 THEN a ELSE GCD(b, a % b)

\* the fraction in lowest terms
Reduce(p) ==
    IF p.num <= 0 THEN [num |-> 0, den |-> 1]
    ELSE [num |-> p.num \div GCD(p.num, p.den), den |-> p.den \div GCD(p.num, p.den)]

\* min(0.6, max(0.0, probability))
CapProbability(p) ==
    IF p.num <= 0 THEN [num |-> 0, den |-> 1]
    ELSE IF 10 * p.num > 6 * p.den THEN [num |-> 6, den |-> 10]
    ELSE p

\* _calculate_probability
calculate_probability(complication, elapsed, treated, v, difficulty) ==
    CapProbability(Reduce(UncappedProbability(complication, elapsed, treated, v, difficulty)))

\* random.random() < probability for the draw d
Fires(p, d) == d * p.den < 100 * p.num

\* _generate_interruption
ComplicationEvent(s, complication) ==
    [event_id |-> <<"comp", s.comp_next_event_id>>,
     timestamp |-> s.elapsed_minutes,
     event_type |-> IF complication.urgency = "critical"
                    THEN "critical_complication" ELSE "urgent_complication",
     title |-> <<"COMPLICATION: ", complication.name>>,
     agent_type |-> "nurse",
     subject |-> NoSubject,
     delivered |-> FALSE]

\* variant: the effect "deteriorating" is assigned whatever the trajectory
\* was
escalate_trajectory_Unconditional(trajectory, complication) ==
    IF complication.trajectory_effect = "critical" THEN CRITICAL
    ELSE IF complication.trajectory_effect = "deteriorating" THEN DETERIORATING
         ELSE trajectory

\* _escalate_trajectory
escalate_trajectory(trajectory, complication) ==
    IF complication.trajectory_effect = "critical" THEN CRITICAL
    ELSE IF complication.trajectory_effect = "deteriorating"
            /\ trajectory \in {STABLE, IMPROVING}
         THEN DETERIORATING
         ELSE trajectory

\* the three steps taken when a complication fires: event on the engine
\* counter (also registered on the state manager), fired set, trajectory
FireComplication(c, complication) ==
    LET e == ComplicationEvent(c.s, complication)
    IN  [c EXCEPT !.s.events = Append(@, e),
                  !.s.comp_next_event_id = @ + 1,
                  !.s.fired_complications = @ \cup {complication.name},
                  !.s.trajectory = escalate_trajectory(@, complication),
                  !.out = Append(@, e.event_id)]

\* variant: the "already fired" test is missing
Evaluated_NoFiredCheck(s, complication) ==
    ~(s.elapsed_minutes < complication.min_t \/ s.elapsed_minutes > complication.max_t)

\* variant: the time window is not tested
Evaluated_NoWindow(s, complication) == complication.name \notin s.fired_complications

\* the guard of the loop body of check_complications
Evaluated(s, complication) ==
    /\ complication.name \notin s.fired_complications
    /\ ~(s.elapsed_minutes < complication.min_t \/ s.elapsed_minutes > complication.max_t)

\* the loop of check_complications from complication i on; c carries the
\* state, the returned events and the stream r
RECURSIVE CheckComplicationsFrom(_, _)
CheckComplicationsFrom(c, i) ==
    IF i > Len(possible_complications) THEN c
    ELSE LET complication == possible_complications[i]
         IN  IF ~Evaluated(c.s, complication)
             THEN CheckComplicationsFrom(c, i + 1)
             ELSE LET treated == is_treated(complication, c.s.treatments)
                      p == calculate_probability(complication, c.s.elapsed_minutes, treated,
                                                 c.s.current_vitals, c.s.difficulty)
                      c1 == [c EXCEPT !.r = Consume(@, 1)]
                  IN  IF Fires(p, Draw(c.r, 0))
                      THEN CheckComplicationsFrom(FireComplication(c1, complication), i + 1)
                      ELSE CheckComplicationsFrom(c1, i + 1)

\* variant: the cap is tested with > instead of >=
DistractionCapReached_OffByOne(s) == Cardinality(s.fired_distractions) > 2

\* the cap that opens _check_distractions
DistractionCapReached(s) == Cardinality(s.fired_distractions) >= 2

\* the SimulationEvent of a distraction
DistractionEvent(s, distraction) ==
    [event_id |-> <<"dist", s.comp_next_event_id>>,
     timestamp |-> s.elapsed_minutes,
     event_type |-> "distraction",
     title |-> <<"INTERRUPTION: ", distraction.name>>,
     agent_type |-> "nurse",
     subject |-> NoSubject,
     delivered |-> FALSE]

\* the loop of _check_distractions from distraction i on: the first
\* distraction whose roll succeeds fires and ends the loop
RECURSIVE CheckDistractionsFrom(_, _)
CheckDistractionsFrom(c, i) ==
    IF i > Len(DISTRACTION_EVENTS) THEN c
    ELSE LET distraction == DISTRACTION_EVENTS[i]
         IN  IF \/ distraction.name \in c.s.fired_distractions
                \/ c.s.elapsed_minutes < distraction.min_time
                \/ c.s.elapsed_minutes > distraction.max_time
             THEN CheckDistractionsFrom(c, i + 1)
             ELSE LET c1 == [c EXCEPT !.r = Consume(@, 1)]
                      e == DistractionEvent(c.s, distraction)
                  IN  \* prob = probability * multiplier, in hundredths * halves
                      IF 2 * Draw(c.r, 0) < distraction.probability * DifficultyHalves(c.s.difficulty)
                      THEN [c1 EXCEPT !.s.events = Append(@, e),
                                      !.s.comp_next_event_id = @ + 1,
                                      !.s.fired_distractions = @ \cup {distraction.name},
                                      !.out = Append(@, e.event_id)]
                      ELSE CheckDistractionsFrom(c1, i + 1)

\* _check_distractions
check_distractions(c) ==
    IF DistractionCapReached(c.s) THEN c ELSE CheckDistractionsFrom(c, 1)

\* check_complications: complications, then distractions
check_complications(s, r) ==
    check_distractions(CheckComplicationsFrom([s |-> s, out |-> <<>>, r |-> r], 1))

\* force_complication, called with the session's clock and vitals
force_complication(s, complication_name) ==
    LET hits == {i \in 1..Len(possible_complications) :
                    /\ possible_complications[i].name = complication_name
                    /\ complication_name \notin s.fired_complications}
    IN  IF hits = {} THEN s
        ELSE LET first == CHOOSE i \in hits : \A j \in hits : i <= j
             IN  FireComplication([s |-> s, out |-> <<>>],
                                  possible_complications[first]).s

\* ------------------------------------------------------------------------
\* ClinicalValidator
\* ------------------------------------------------------------------------
\* a value that is None (or empty) in the source
None == "None"

\* variant: the fallback refuses the order
fallback_validation_Refusing(student_action, action_type) ==
    [safety_level |-> "dangerous", nurse_intervention |-> "confirm_order",
     senior_intervention |-> None, proceed |-> FALSE, teaching_point |-> None]

\* _fallback_validation
fallback_validation(student_action, action_type) ==
    IF action_type = "order_treatment"
    THEN [safety_level |-> "caution", nurse_intervention |-> "confirm_order",
          senior_intervention |-> None, proceed |-> TRUE, teaching_point |-> None]
    ELSE [safety_level |-> "safe", nurse_intervention |-> None,
          senior_intervention |-> None, proceed |-> TRUE, teaching_point |-> None]

\* _parse_validation: reply.ok is FALSE when json.loads (or the fence
\* split) fails; the fields of a parsed reply are passed through
parse_validation(reply) ==
    IF reply.ok THEN reply.result ELSE fallback_validation("", "")

\* validate_action for an order; reply is what the model service does:
\* client "absent", call "raises", "no_text" in the response, or a "text"
ValidatorFailed(reply) == reply.client \in {"absent", "raises", "no_text"}

\* how the validation of one order went, kept in the response record
ReplyKind(reply) ==
    IF ValidatorFailed(reply) THEN "failed"
    ELSE IF reply.ok THEN "parsed" ELSE "unparsable"

validate_action(student_action, action_type, reply) ==
    IF ValidatorFailed(reply)
    THEN fallback_validation(student_action, action_type)
    ELSE parse_validation(reply)

\* ------------------------------------------------------------------------
\* AgentOrchestrator
\* ------------------------------------------------------------------------
NoEvent == <<"none", 0>>

NoInput == ""

NoValidation ==
    [safety_level |-> None, nurse_intervention |-> None,
     senior_intervention |-> None, proceed |-> TRUE, teaching_point |-> None]

Message(agent_type, kind) == [agent_type |-> agent_type, kind |-> kind, event_id |-> NoEvent]

IsOrder(action_type) == action_type \in {"order_treatment", "order_investigation"}

\* step 1 of process_action: the intervention messages of a validation
InterventionMessages(validation) ==
    IF validation.safety_level = "dangerous"
    THEN (IF validation.nurse_intervention # None
          THEN <<Message("nurse", "intervention")>> ELSE <<>>)
         \o (IF validation.senior_intervention # None
             THEN <<Message("senior_doctor", "intervention")>> ELSE <<>>)
         \o (IF validation.teaching_point # None
             THEN <<Message("senior_doctor", "teaching")>> ELSE <<>>)
    ELSE IF validation.safety_level = "caution" /\ validation.nurse_intervention # None
         THEN <<Message("nurse", "intervention")>>
         ELSE <<>>

\* variant: the proceed flag is read without the negation
Blocked_Inverted(validation) == validation.safety_level = "dangerous" /\ validation.proceed

\* the short-circuit of step 1
Blocked(validation) == validation.safety_level = "dangerous" /\ ~validation.proceed

\* _route_action: the responders that answer, in order, and the number of
\* draws taken (the family interjects when random.random() < 0.5)
route_action(action_type, r, exam_findings) ==
    CASE action_type = "talk_to_patient" ->
            [agents |-> IF Draw(r, 0) < 50 THEN <<"patient", "family">> ELSE <<"patient">>,
             draws |-> 1]
      [] action_type = "ask_nurse" -> [agents |-> <<"nurse">>, draws |-> 0]
      [] action_type = "consult_senior" -> [agents |-> <<"senior_doctor">>, draws |-> 0]
      [] action_type = "talk_to_family" -> [agents |-> <<"family">>, draws |-> 0]
      [] action_type = "ask_lab" -> [agents |-> <<"lab_tech">>, draws |-> 0]
      [] action_type = "examine_patient" ->
            [agents |-> <<"patient", "nurse">>
                        \o (IF exam_findings THEN <<"system">> ELSE <<>>),
             draws |-> 0]
      [] action_type = "team_huddle" ->
            [agents |-> <<"nurse", "patient", "family", "senior_doctor">>, draws |-> 0]
      [] IsOrder(action_type) -> [agents |-> <<>>, draws |-> 0]
      [] OTHER -> [agents |-> <<"senior_doctor">>, draws |-> 0]

AgentMessages(agents) == [k \in 1..Len(agents) |-> Message(agents[k], "response")]

\* _process_treatment: record the assessed treatment; the nurse answers,
\* and adds a monitoring line when the assessment carries one
process_treatment(s, treatment_description, assessment) ==
    [s |-> record_treatment(s, treatment_description,
                            assessment.vital_effects, assessment.is_appropriate),
     messages |-> <<Message("nurse", "treatment")>>
                  \o (IF assessment.monitoring THEN <<Message("nurse", "monitoring")>> ELSE <<>>)]

\* _process_investigation
process_investigation(s, investigation_description) ==
    [s |-> order_investigation(s, parse_investigation_type(investigation_description),
                               IsUrgentText(investigation_description)),
     messages |-> <<Message("lab_tech", "response"), Message("nurse", "investigation")>>]

\* index in s.events of the event with this id
EventIndex(s, id) == CHOOSE k \in 1..Len(s.events) : s.events[k].event_id = id

\* variant: the loop walks the whole event list of the session and does
\* not look at the flag
EventsToSurface_AllEvents(s, ids) == [k \in 1..Len(s.events) |-> s.events[k].event_id]

\* the events of a returned list that a delivery loop turns into messages
\* ("if not event.delivered"), in list order
EventsToSurface(s, ids) ==
    SelectSeq(ids, LAMBDA id : ~s.events[EventIndex(s, id)].delivered)

\* a delivery loop of process_action / advance_time: set the flag, append
\* one message per event
RECURSIVE MarkDelivered(_, _)
MarkDelivered(s, ids) ==
    IF ids = <<>> THEN s
    ELSE MarkDelivered([s EXCEPT !.events[EventIndex(s, Head(ids))].delivered = TRUE], Tail(ids))

EventMessages(s, ids) ==
    [k \in 1..Len(ids) |->
        [agent_type |-> s.events[EventIndex(s, ids[k])].agent_type,
         kind |-> "event", event_id |-> ids[k]]]

DeliverEvents(d, ids) ==
    LET todo == EventsToSurface(d.s, ids)
    IN  [s |-> MarkDelivered(d.s, todo),
         messages |-> d.messages \o EventMessages(d.s, todo)]

\* the ids of the events a message list surfaces
SurfacedIds(messages) ==
    LET ev == SelectSeq(messages, LAMBDA m : m.event_id # NoEvent)
    IN  [k \in 1..Len(ev) |-> ev[k].event_id]

\* get_investigation_status: what _build_response puts into every response
\* under "investigations"; the result is given once the status is Ready
get_investigation_status(s) ==
    [k \in 1..Len(s.investigations) |->
        [id |-> s.investigations[k].investigation_id,
         status |-> s.investigations[k].status,
         result |-> IF s.investigations[k].status = READY THEN "result_text" ELSE None]]

\* the response of a call, with what the properties read from it
Response(op, action_type, blocked, validator, validation, messages) ==
    [op |-> op, action_type |-> action_type, error |-> None, blocked |-> blocked,
     validator |-> validator, validation |-> validation, messages |-> messages]

\* store and return
Finish(d, r, action_type, validator, validation) ==
    [s |-> d.s, r |-> r,
     ret |-> Response("process_action", action_type, FALSE, validator, validation, d.messages)]

\* variant: step 7 is left out, the events the clock advance triggered are
\* not delivered
Step6and7_WithoutStep7(comp, adv_out, messages, action_type, validator, validation) ==
    Finish(DeliverEvents([s |-> comp.s, messages |-> messages], comp.out),
           comp.r, action_type, validator, validation)

\* steps 6 and 7: the complication events are delivered, then the events
\* the clock advance triggered
Step6and7(comp, adv_out, messages, action_type, validator, validation) ==
    Finish(DeliverEvents(DeliverEvents([s |-> comp.s, messages |-> messages], comp.out),
                         adv_out),
           comp.r, action_type, validator, validation)

\* steps 4 and 5: the order is applied to the state the clock advance left
ApplyOrder(s, action_type, student_input, assessment) ==
    IF action_type = "order_treatment" /\ student_input # NoInput
    THEN process_treatment(s, student_input, assessment)
    ELSE IF action_type = "order_investigation" /\ student_input # NoInput
         THEN process_investigation(s, student_input)
         ELSE [s |-> s, messages |-> <<>>]

Step6(applied, adv_out, r, messages, action_type, validator, validation) ==
    Step6and7(check_complications(applied.s, r), adv_out, messages \o applied.messages,
              action_type, validator, validation)

\* variant: the complication tick runs on the state the clock advance left,
\* the order is applied after it
Step3_TickBeforeOrder(adv, routed, r, messages, action_type, student_input, assessment, validator, validation) ==
    LET comp == check_complications(adv.s, Consume(r, routed.draws))
        applied == ApplyOrder(comp.s, action_type, student_input, assessment)
    IN  Step6and7([s |-> applied.s, out |-> comp.out, r |-> comp.r], adv.out,
                  messages \o AgentMessages(routed.agents) \o applied.messages,
                  action_type, validator, validation)

Step3(adv, routed, r, messages, action_type, student_input, assessment, validator, validation) ==
    Step6(ApplyOrder(adv.s, action_type, student_input, assessment), adv.out,
          Consume(r, routed.draws), messages \o AgentMessages(routed.agents),
          action_type, validator, validation)

Step2(s, r, r2, action_type, student_input, assessment, validator, validation) ==
    Step3(sm_advance_time(s, action_type, r),
          route_action(action_type, r2, s.exam_findings), r2,
          InterventionMessages(validation),
          action_type, student_input, assessment, validator, validation)

\* step 1 is over: validator is None when no validation took place
AfterValidation(s, r, action_type, student_input, assessment, validator, validation) ==
    IF validator # None /\ Blocked(validation)
    THEN [s |-> s, r |-> r,
          ret |-> Response("process_action", action_type, TRUE, validator, validation,
                           InterventionMessages(validation))]
    ELSE Step2(s, r, Consume(r, EvolveDraws(s.trajectory)),
               action_type, student_input, assessment, validator, validation)

Validated(action_type, student_input) == IsOrder(action_type) /\ student_input # NoInput

\* process_action on the registered session; the result carries the new
\* state, the stream and the response
process_action(s, r, action_type, student_input, reply, assessment) ==
    AfterValidation(s, r, action_type, student_input, assessment,
                    IF Validated(action_type, student_input) THEN ReplyKind(reply) ELSE None,
                    IF Validated(action_type, student_input)
                    THEN validate_action(student_input, action_type, reply)
                    ELSE NoValidation)

\* AgentOrchestrator.advance_time on the registered session
Respond(d, r) ==
    [s |-> d.s, r |-> r,
     ret |-> Response("advance_time", None, FALSE, None, NoValidation,
                      IF d.messages = <<>> THEN <<Message("nurse", "routine")>>
                      ELSE d.messages)]

\* the snapshot, then the two delivery loops
SnapshotAndDeliver(ev_out, comp) ==
    Respond(DeliverEvents(DeliverEvents([s |-> AppendSnapshot(comp.s), messages |-> <<>>],
                                        ev_out),
                          comp.out),
            comp.r)

TickComplications(ev, r) == SnapshotAndDeliver(ev.out, check_complications(ev.s, r))

orch_advance_time(s, r, minutes) ==
    TickComplications(TickState(s, minutes, r), Consume(r, EvolveDraws(s.trajectory)))

\* ------------------------------------------------------------------------
\* AgentOrchestrator.sessions
\* ------------------------------------------------------------------------
\* the id initialize_session registered the session under
SessionId == "session-1"

\* ids a caller may send: the registered one and one that was never issued
SessionIds == {SessionId, "no-such-session"}

\* variant: the lookup answers for any id
KnownSession_Any(sessions, session_id) == TRUE

\* self.sessions.get(session_id) is a session
KnownSession(sessions, session_id) == session_id \in sessions

\* the early return of process_action and advance_time
NotFound(op, s, r) ==
    [s |-> s, r |-> r,
     ret |-> [Response(op, None, FALSE, None, NoValidation, <<>>)
                 EXCEPT !.error = "Session not found"]]

\* ------------------------------------------------------------------------
\* ParallelAgentProcessor.process_agents_parallel: one call, the responders
\* run on the threads of the pool while the caller collects
\* ------------------------------------------------------------------------
\* the agents_to_process lists _route_action builds (talk_to_patient with
\* the family, examine_patient, team_huddle)
DispatchLists == { <<"patient", "family">>, <<"patient", "nurse">>, <<"nurse", "patient", "family">> }

\* what agent.respond does on its thread: it returns a response, returns it
\* only after the 10 seconds of the timeout, raises, or never returns
Behaviours == {"answers", "late", "raises", "hangs"}

IdlePool ==
    [pc |-> "idle", agents |-> <<>>, max_workers |-> 0, behaviour |-> <<>>,
     future |-> <<>>, responses |-> <<>>, results |-> <<>>]

\* the dict agent.respond returns
AgentResponse(agent_type) == [agent_type |-> agent_type, content |-> "response"]

\* the dict built in the except branch
FallbackResponse(agent_type) == [agent_type |-> agent_type, content |-> "fallback"]

\* variant: the responses stay in the order of completion
SortByIndex_CompletionOrder(responses) == responses

\* responses.sort(key=lambda x: x[0]): the stable sort by index puts at
\* place k the pair that k - 1 pairs precede
SortByIndex(responses) ==
    LET Rank(j) == Cardinality({i \in 1..Len(responses) :
                                   \/ responses[i][1] < responses[j][1]
                                   \/ (responses[i][1] = responses[j][1] /\ i <= j)})
    IN  [k \in 1..Len(responses) |->
            responses[CHOOSE j \in 1..Len(responses) : Rank(j) = k]]

\* results = [r[1] for r in responses]
Results(responses) == [k \in 1..Len(responses) |-> responses[k][2]]

\* indices (from 0) of the futures as_completed has yielded
Collected(p) == {p.responses[k][1] : k \in 1..Len(p.responses)}

\* the max_workers _route_action passes with the list
MaxWorkers(agents) == IF Len(agents) = 3 THEN 3 ELSE 2

\* the workers of ThreadPoolExecutor(max_workers=min(max_workers, len(...)))
Workers(p) == Min(p.max_workers, Len(p.agents))

\* the futures a worker is running
Running(p) == {i \in 1..Len(p.future) : p.future[i] = "running"}

\* ------------------------------------------------------------------------
\* Inputs of the model
\* ------------------------------------------------------------------------
\* case descriptions: the corpus fallback case of CaseGenerator, the
\* placeholder case of CaseGenerator._empty_case, and a generated case of
\* a patient in shock; bp is the list of numbers of the "sys/dia" text
\* (empty when the text holds no number)
Cases ==
    { [name |-> "corpus_fallback", difficulty |-> "intermediate", exam_findings |-> TRUE,
       vital_signs |-> [bp |-> <<120, 80>>, hr |-> 80, rr |-> 16, temp |-> 370, spo2 |-> 98]],
      [name |-> "empty_case", difficulty |-> "beginner", exam_findings |-> FALSE,
       vital_signs |-> [bp |-> <<>>, hr |-> 0, rr |-> 0, temp |-> 0, spo2 |-> 0]],
      [name |-> "shock", difficulty |-> "advanced", exam_findings |-> TRUE,
       vital_signs |-> [bp |-> <<84, 52>>, hr |-> 138, rr |-> 28, temp |-> 385, spo2 |-> 85]] }

\* seeds of the random stream: the draws repeat with the given period
Seeds == { <<0>>, <<2, 97, 55>> }

\* action types sent to process_action besides the two order types
PlainActions == {"talk_to_patient", "examine_patient", "wait_for_results"}

\* texts of investigation orders (NoInput: an order without text)
InvestigationTexts == {"urgent ecg", "abg", NoInput}

\* treatment orders with the assessment the treatment engine returns
TreatmentOrders ==
    { [description |-> "iv fluids normal saline",
       assessment |-> [is_appropriate |-> TRUE, monitoring |-> TRUE,
                       vital_effects |-> [bp_systolic_change |-> 10, hr_change |-> -5]]],
      [description |-> "oxygen by mask",
       assessment |-> [is_appropriate |-> TRUE, monitoring |-> TRUE,
                       vital_effects |-> [spo2_change |-> 5, rr_change |-> -2]]],
      [description |-> "propranolol 40mg",
       assessment |-> [is_appropriate |-> FALSE, monitoring |-> FALSE,
                       vital_effects |-> [hr_change |-> -30]]] }

\* what the validation service does for one order
ValidatorReplies ==
    { [client |-> "absent", ok |-> FALSE, result |-> NoValidation],
      [client |-> "raises", ok |-> FALSE, result |-> NoValidation],
      [client |-> "no_text", ok |-> FALSE, result |-> NoValidation],
      [client |-> "text", ok |-> FALSE, result |-> NoValidation],
      [client |-> "text", ok |-> TRUE,
       result |-> [safety_level |-> "safe", nurse_intervention |-> None,
                   senior_intervention |-> None, proceed |-> TRUE, teaching_point |-> None]],
      [client |-> "text", ok |-> TRUE,
       result |-> [safety_level |-> "caution", nurse_intervention |-> "text",
                   senior_intervention |-> None, proceed |-> TRUE, teaching_point |-> None]],
      [client |-> "text", ok |-> TRUE,
       result |-> [safety_level |-> "dangerous", nurse_intervention |-> "text",
                   senior_intervention |-> "text", proceed |-> FALSE, teaching_point |-> "text"]],
      [client |-> "text", ok |-> TRUE,
       result |-> [safety_level |-> "dangerous", nurse_intervention |-> "text",
                   senior_intervention |-> "text", proceed |-> TRUE, teaching_point |-> None]] }

\* minutes sent to the advance-time endpoint (AdvanceTimeRequest.minutes is
\* any int, 30 by default)
AdvanceMinutes == {30, -10}

\* names passed to force_complication
ForcedNames == {"Compartment Syndrome", "Septic Shock"}

\* ------------------------------------------------------------------------
\* Session creation
\* ------------------------------------------------------------------------
\* _parse_bp
parse_bp(bp, component) ==
    IF Len(bp) = 0 THEN (IF component = "systolic" THEN 120 ELSE 80)
    ELSE IF component = "systolic" THEN bp[1]
    ELSE IF Len(bp) > 1 THEN bp[2] ELSE 80

\* CaseStateManager.__init__: the vitals are taken from the case as given
InitialVitals(vital_signs) ==
    [bp_systolic |-> parse_bp(vital_signs.bp, "systolic"),
     bp_diastolic |-> parse_bp(vital_signs.bp, "diastolic"),
     hr |-> vital_signs.hr,
     rr |-> vital_signs.rr,
     temp |-> vital_signs.temp,
     spo2 |-> vital_signs.spo2]

\* _initial_trajectory
initial_trajectory(difficulty, v) ==
    IF difficulty = "advanced" \/ v.spo2 < 90 \/ v.hr > 130 THEN DETERIORATING
    ELSE STABLE

\* AgentSession.__init__: CaseStateManager and ComplicationEngine state
NewSession(case) ==
    LET v == InitialVitals(case.vital_signs)
    IN  [difficulty |-> case.difficulty,
         exam_findings |-> case.exam_findings,
         elapsed_minutes |-> 0,
         current_vitals |-> v,
         vitals_history |-> << [time |-> 0, vitals |-> v] >>,
         trajectory |-> initial_trajectory(case.difficulty, v),
         investigations |-> <<>>,
         next_inv_id |-> 0,
         treatments |-> <<>>,
         events |-> <<>>,
         next_event_id |-> 0,
         fired_complications |-> {},
         fired_distractions |-> {},
         comp_next_event_id |-> 5000]

NoCall ==
    [op |-> "initialize_session", action_type |-> None, error |-> None,
     blocked |-> FALSE, validator |-> None, validation |-> NoValidation, messages |-> <<>>]

Init ==
    /\ \E case \in Cases : session = NewSession(case)
    /\ \E seed \in Seeds : rng = [tape |-> seed, pos |-> 0]
    /\ ret = NoCall
    /\ surfaced = <<>>
    /\ steps = 0
    /\ registered = {SessionId}
    /\ pool = IdlePool

\* ------------------------------------------------------------------------
\* Actions: one call on the orchestrator (or the engine) each
\* ------------------------------------------------------------------------
Return(session_id, res) ==
    /\ session' = res.s
    /\ rng' = res.r
    /\ ret' = [session_id |-> session_id] @@ res.ret
    /\ surfaced' = surfaced \o SurfacedIds(res.ret.messages)
    /\ steps' = steps + 1
    /\ UNCHANGED <<registered, pool>>

NoAssessment == [is_appropriate |-> TRUE, monitoring |-> FALSE, vital_effects |-> <<>>]

NoReply == [client |-> "absent", ok |-> FALSE, result |-> NoValidation]

\* the session lookup fails: process_action and advance_time return at once
UnknownSession(op, session_id) == Return(session_id, NotFound(op, session, rng))

\* AgentOrchestrator.process_action: the session lookup, then the pipeline
ProcessPlainAction ==
    /\ steps < MaxSteps
    /\ \E session_id \in SessionIds :
          IF KnownSession(registered, session_id)
          THEN \E action_type \in PlainActions :
                  Return(session_id, process_action(session, rng, action_type,
                                                    NoInput, NoReply, NoAssessment))
          ELSE UnknownSession("process_action", session_id)

ProcessOrderInvestigation ==
    /\ steps < MaxSteps
    /\ \E session_id \in SessionIds :
          IF KnownSession(registered, session_id)
          THEN \E text \in InvestigationTexts, reply \in ValidatorReplies :
                  Return(session_id, process_action(session, rng, "order_investigation",
                                                    text, reply, NoAssessment))
          ELSE UnknownSession("process_action", session_id)

ProcessOrderTreatment ==
    /\ steps < MaxSteps
    /\ \E session_id \in SessionIds :
          IF KnownSession(registered, session_id)
          THEN \E order \in TreatmentOrders, reply \in ValidatorReplies :
                  Return(session_id, process_action(session, rng, "order_treatment",
                                                    order.description, reply, order.assessment))
          ELSE UnknownSession("process_action", session_id)

\* AgentOrchestrator.advance_time: the session lookup, then the tick
AdvanceTime ==
    /\ steps < MaxSteps
    /\ \E session_id \in SessionIds :
          IF KnownSession(registered, session_id)
          THEN \E minutes \in AdvanceMinutes :
                  Return(session_id, orch_advance_time(session, rng, minutes))
          ELSE UnknownSession("advance_time", session_id)

ForceComplication ==
    /\ steps < MaxSteps
    /\ \E complication_name \in ForcedNames :
          /\ session' = force_complication(session, complication_name)
          /\ ret' = Response("force_complication", None, FALSE, None, NoValidation, <<>>)
          /\ steps' = steps + 1
          /\ UNCHANGED <<rng, surfaced, registered, pool>>

Next ==
    \/ ProcessPlainAction
    \/ ProcessOrderInvestigation
    \/ ProcessOrderTreatment
    \/ AdvanceTime
    \/ ForceComplication

Spec == Init /\ [][Next]_vars

\* ------------------------------------------------------------------------
\* The per-tick probability on its own: the inputs of _calculate_probability
\* are drawn from bounded sets, the one action evaluates it
\* ------------------------------------------------------------------------
\* SPECIALTY_COMPLICATIONS["infectious"][0]
InfectiousSepticShock ==
    [name |-> "Septic Shock", probability_base |-> 18,
     min_t |-> 30, max_t |-> 120,
     vitals_criteria |-> {<<"bp_systolic_below", 90>>, <<"hr_above", 110>>, <<"temp_above", 385>>},
     urgency |-> "critical", trajectory_effect |-> "critical"]

ProbabilityComplications == EmergencyComplications \o <<InfectiousSepticShock>>

\* a generated case of a febrile patient in shock
FebrileShockCase ==
    [name |-> "febrile_shock", difficulty |-> "advanced", exam_findings |-> TRUE,
     vital_signs |-> [bp |-> <<84, 52>>, hr |-> 138, rr |-> 28, temp |-> 390, spo2 |-> 85]]

Difficulties == {"beginner", "intermediate", "advanced"}

ProbabilityElapsed == {5, 30, 45, 60, 90, 120}

\* the treatment list: empty, or one recorded treatment
ProbabilityTreatments ==
    {<<>>} \cup
    { << [treatment_id |-> 0, description |-> order.description, ordered_at |-> 0,
          effects |-> order.assessment.vital_effects,
          is_appropriate |-> order.assessment.is_appropriate] >> : order \in TreatmentOrders }

InitProbability ==
    /\ \E case \in Cases \cup {FebrileShockCase}, difficulty \in Difficulties,
          elapsed \in ProbabilityElapsed, treatments \in ProbabilityTreatments :
          session = [NewSession(case) EXCEPT !.difficulty = difficulty,
                                             !.elapsed_minutes = elapsed,
                                             !.treatments = treatments]
    /\ rng = [tape |-> <<0>>, pos |-> 0]
    /\ ret = NoCall
    /\ surfaced = <<>>
    /\ steps = 0
    /\ registered = {SessionId}
    /\ pool = IdlePool

\* what check_complications computes for one complication in its window:
\* the probability with the recorded treatments, and the probability of
\* the same inputs with treated = False
ProbabilityResult(s, complication) ==
    [op |-> "calculate_probability",
     complication |-> complication.name,
     treated |-> is_treated(complication, s.treatments),
     probability |-> calculate_probability(complication, s.elapsed_minutes,
                                           is_treated(complication, s.treatments),
                                           s.current_vitals, s.difficulty),
     untreated |-> calculate_probability(complication, s.elapsed_minutes, FALSE,
                                         s.current_vitals, s.difficulty)]

CalculateProbability ==
    \E i \in 1..Len(ProbabilityComplications) :
        /\ Evaluated(session, ProbabilityComplications[i])
        /\ ret' = ProbabilityResult(session, ProbabilityComplications[i])
        /\ UNCHANGED <<session, rng, surfaced, steps, registered, pool>>

NextProbability == CalculateProbability

SpecProbability == InitProbability /\ [][NextProbability]_vars


\* ------------------------------------------------------------------------
\* The clock of the case state on its own: CaseStateManager.advance_time is
\* called for one action after the other, the jitter of each call is any
\* of the tapes
\* ------------------------------------------------------------------------
\* action types whose time costs are 10, 15 and 30 minutes
ClockActions == {"talk_to_patient", "examine_patient", "wait_for_results"}

\* what the three calls of random.uniform in one tick may return
JitterTapes == { <<0, 0, 0>>, <<2, 97, 55>>, <<99, 99, 99>> }

\* the hour the rate of _evolve_vitals is a fraction of; the clock of this
\* specification stops there
Hour == 60

InitClock ==
    /\ \E case \in Cases : session = NewSession(case)
    /\ rng = [tape |-> <<0, 0, 0>>, pos |-> 0]
    /\ ret = NoCall
    /\ surfaced = <<>>
    /\ steps = 0
    /\ registered = {SessionId}
    /\ pool = IdlePool

\* what one call of CaseStateManager.advance_time returns
ClockResult(action_type, c) ==
    [op |-> "state_advance_time", action_type |-> action_type, events |-> c.out]

StateAdvanceTime ==
    \E action_type \in ClockActions, tape \in JitterTapes :
        /\ session.elapsed_minutes + ACTION_TIME_COST(action_type) <= Hour
        /\ session' = sm_advance_time(session, action_type, [tape |-> tape, pos |-> 0]).s
        /\ ret' = ClockResult(action_type,
                              sm_advance_time(session, action_type, [tape |-> tape, pos |-> 0]))
        /\ rng' = [tape |-> tape, pos |-> 0]
        /\ steps' = steps + 1
        /\ UNCHANGED <<surfaced, registered, pool>>

NextClock == StateAdvanceTime

SpecClock == InitClock /\ [][NextClock]_vars


\* ------------------------------------------------------------------------
\* One call of process_agents_parallel: the tasks are submitted, the workers
\* run them, the caller takes the futures as they complete and returns when
\* the loop and the shutdown of the executor are over
\* ------------------------------------------------------------------------
\* executor.submit for every entry of the list
Dispatch ==
    /\ pool.pc = "idle"
    /\ \E agents \in DispatchLists :
          \E behaviour \in [1..Len(agents) -> Behaviours] :
              pool' = [pc |-> "collecting", agents |-> agents,
                       max_workers |-> MaxWorkers(agents), behaviour |-> behaviour,
                       future |-> [i \in 1..Len(agents) |-> "pending"],
                       responses |-> <<>>, results |-> <<>>]
    /\ UNCHANGED <<session, rng, ret, surfaced, steps, registered>>

\* a free worker takes a submitted task
StartTask ==
    /\ \E i \in 1..Len(pool.future) :
          /\ pool.future[i] = "pending"
          /\ Cardinality(Running(pool)) < Workers(pool)
          /\ pool' = [pool EXCEPT !.future[i] = "running"]
    /\ UNCHANGED <<session, rng, ret, surfaced, steps, registered>>

\* agent.respond is over: it returned (in time or late) or it raised; a
\* responder that hangs never gets here
Complete ==
    /\ \E i \in 1..Len(pool.future) :
          /\ pool.future[i] = "running"
          /\ pool.behaviour[i] # "hangs"
          /\ pool' = [pool EXCEPT !.future[i] =
                          IF pool.behaviour[i] = "raises" THEN "raised" ELSE "done"]
    /\ UNCHANGED <<session, rng, ret, surfaced, steps, registered>>

\* one round of "for future in as_completed(...)": a finished future is
\* yielded, future.result(timeout=10) returns its response or re-raises
Collect ==
    /\ pool.pc = "collecting"
    /\ \E i \in 1..Len(pool.future) :
          /\ pool.future[i] \in {"done", "raised"}
          /\ (i - 1) \notin Collected(pool)
          /\ pool' = [pool EXCEPT !.responses =
                          Append(@, <<i - 1, IF pool.future[i] = "done"
                                             THEN AgentResponse(pool.agents[i])
                                             ELSE FallbackResponse(pool.agents[i])>>)]
    /\ UNCHANGED <<session, rng, ret, surfaced, steps, registered>>

\* as_completed is exhausted when every future was yielded; the executor
\* shuts down, the responses are sorted and returned
ReturnResults ==
    /\ pool.pc = "collecting"
    /\ Collected(pool) = {i - 1 : i \in 1..Len(pool.future)}
    /\ pool' = [pool EXCEPT !.pc = "returned",
                            !.results = Results(SortByIndex(pool.responses))]
    /\ UNCHANGED <<session, rng, ret, surfaced, steps, registered>>

NextFanOut ==
    \/ Dispatch
    \/ StartTask
    \/ Complete
    \/ Collect
    \/ ReturnResults

\* the threads of the pool and the calling thread keep running
SpecFanOut == Init /\ [][NextFanOut]_vars /\ WF_vars(NextFanOut)


\* ------------------------------------------------------------------------
\* Orders of a chest x-ray: the text of the order is one of the spellings,
\* the one action places the order
\* ------------------------------------------------------------------------
\* spellings of "chest x-ray" that differ in letter case, spacing and
\* hyphenation, alone or after a word that makes the order urgent
ChestWords == { <<"c", "h", "e", "s", "t">>, <<"C", "h", "e", "s", "t">>, <<"C", "H", "E", "S", "T">> }

Separators == { <<" ">>, <<"-">>, <<>> }

XWords == { <<"x">>, <<"X">> }

RayWords == { <<"r", "a", "y">>, <<"R", "a", "y">>, <<"R", "A", "Y">> }

UrgencyPrefixes == { <<>>, <<"u", "r", "g", "e", "n", "t", " ">>, <<"S", "T", "A", "T", " ">> }

OrderTexts ==
    { prefix \o chest \o sep1 \o x \o sep2 \o ray :
        prefix \in UrgencyPrefixes, chest \in ChestWords, sep1 \in Separators \ {<<>>},
        x \in XWords, sep2 \in Separators, ray \in RayWords }

InitOrderText ==
    /\ \E case \in Cases : session = NewSession(case)
    /\ \E description \in OrderTexts : ret = [op |-> "order_request", description |-> description]
    /\ rng = [tape |-> <<0>>, pos |-> 0]
    /\ surfaced = <<>>
    /\ steps = 0
    /\ registered = {SessionId}
    /\ pool = IdlePool

OrderInvestigationText ==
    /\ ret.op = "order_request"
    /\ session' = order_investigation_text(session, ret.description)
    /\ ret' = [op |-> "order_investigation", description |-> ret.description]
    /\ steps' = steps + 1
    /\ UNCHANGED <<rng, surfaced, registered, pool>>

NextOrderText == OrderInvestigationText

SpecOrderText == InitOrderText /\ [][NextOrderText]_vars


\* ------------------------------------------------------------------------
\* Properties
\* ------------------------------------------------------------------------
\* the call that produced the current state advanced the clock and ran the
\* investigation check
ClockAdvanced(r) ==
    /\ r.op \in {"advance_time", "process_action"}
    /\ r.error = None
    /\ ~r.blocked

\* the clamp bounds of _evolve_vitals, temperature in tenths of a degree
WithinClampBounds(v) ==
    /\ v.hr \in 30..200
    /\ v.rr \in 6..50
    /\ v.spo2 \in 60..100
    /\ v.bp_systolic \in 50..220
    /\ v.bp_diastolic \in 30..130
    /\ v.temp \in 350..420

\* C1: in every state of a session, from its creation on, the current
\* vitals and the vitals of every history snapshot (the time-0 snapshot
\* included) lie within the clamp bounds.
C1_VitalsWithinClampBounds ==
    /\ WithinClampBounds(session.current_vitals)
    /\ \A k \in 1..Len(session.vitals_history) :
          WithinClampBounds(session.vitals_history[k].vitals)

\* the number of complication events of the event list that carry the name
ComplicationEvents(s, name) ==
    Cardinality({k \in 1..Len(s.events) : s.events[k].title = <<"COMPLICATION: ", name>>})

ComplicationNames ==
    {possible_complications[i].name : i \in 1..Len(possible_complications)} \cup ForcedNames

\* C2: a complication name fires at most once in a session: the event list
\* holds exactly one complication event for a name of the fired set and
\* none for any other name.
C2_ComplicationFiresOnce ==
    \A name \in ComplicationNames :
        ComplicationEvents(session, name) =
            IF name \in session.fired_complications THEN 1 ELSE 0

\* a complication fired at an earlier time, and the last call ran the
\* complication check inside its window with a stream on which every roll
\* succeeds
C2_Witness ==
    /\ ClockAdvanced(ret)
    /\ rng.tape = <<0>>
    /\ \E i \in 1..Len(possible_complications) :
          LET complication == possible_complications[i]
          IN  /\ complication.name \in session.fired_complications
              /\ session.elapsed_minutes >= complication.min_t
              /\ session.elapsed_minutes <= complication.max_t
              /\ \E k \in 1..Len(session.events) :
                    /\ session.events[k].title = <<"COMPLICATION: ", complication.name>>
                    /\ session.events[k].timestamp < session.elapsed_minutes

DistractionEvents(s) ==
    Cardinality({k \in 1..Len(s.events) : s.events[k].event_type = "distraction"})

C4_ElapsedNeverDecreases ==
    [][session'.elapsed_minutes >= session.elapsed_minutes]_vars

\* the number of results-ready events of investigation i
ReadyEvents(s, i) ==
    Cardinality({k \in 1..Len(s.events) :
                    /\ s.events[k].event_type = "investigation_ready"
                    /\ s.events[k].subject = i})

TimeSinceOrder(s, i) == s.elapsed_minutes - s.investigations[i].ordered_at

\* C5: after a clock advance that leaves (elapsed - ordered_at) at or above
\* the turnaround, the investigation is Ready, whatever its status was; an
\* investigation is Ready exactly when it has one results-ready event, it
\* never has more than one, and a Ready investigation stays Ready with its
\* one event.
C5_ReadyOnceAtTurnaround ==
    [][\A i \in 1..Len(session'.investigations) :
          /\ ReadyEvents(session', i) <= 1
          /\ (session'.investigations[i].status = READY) <=> (ReadyEvents(session', i) = 1)
          /\ i <= Len(session.investigations) =>
                /\ (ClockAdvanced(ret')
                    /\ TimeSinceOrder(session', i) >= session.investigations[i].turnaround)
                       => session'.investigations[i].status = READY
                /\ session.investigations[i].status = READY
                       => /\ session'.investigations[i].status = READY
                          /\ ReadyEvents(session', i) = ReadyEvents(session, i)]_vars

\* an investigation is Ready, its one event dates from an earlier clock
\* advance, and the last call advanced the clock again
C5_Witness ==
    /\ ClockAdvanced(ret)
    /\ \E i \in 1..Len(session.investigations) :
          /\ session.investigations[i].status = READY
          /\ ReadyEvents(session, i) = 1
          /\ \E k \in 1..Len(session.events) :
                /\ session.events[k].subject = i
                /\ session.events[k].event_type = "investigation_ready"
                /\ session.events[k].timestamp < session.elapsed_minutes

\* C6: a clock advance that finds an investigation Ordered and leaves
\* (elapsed - ordered_at) at or above half the turnaround but below the
\* turnaround moves it to Processing and emits no results-ready event.
C6_ProcessingAtHalfTurnaround ==
    [][\A i \in 1..Len(session.investigations) :
          (/\ ClockAdvanced(ret')
           /\ session.investigations[i].status = ORDERED
           /\ 2 * TimeSinceOrder(session', i) >= session.investigations[i].turnaround
           /\ TimeSinceOrder(session', i) < session.investigations[i].turnaround)
              => /\ session'.investigations[i].status = PROCESSING
                 /\ ReadyEvents(session', i) = 0]_vars

\* an investigation is Processing at exactly half its turnaround
C6_Witness ==
    /\ ClockAdvanced(ret)
    /\ \E i \in 1..Len(session.investigations) :
          /\ session.investigations[i].status = PROCESSING
          /\ 2 * TimeSinceOrder(session, i) = session.investigations[i].turnaround
          /\ ReadyEvents(session, i) = 0

\* C7: the status of an investigation only moves forward in the order
\* Ordered, Sample Collected, Processing, Ready, Delivered, and no
\* investigation leaves the list.
C7_StatusMovesForward ==
    [][/\ Len(session'.investigations) >= Len(session.investigations)
       /\ \A i \in 1..Len(session.investigations) :
             StatusRank(session'.investigations[i].status)
                 >= StatusRank(session.investigations[i].status)]_vars

\* an investigation that became Ready has been through clock advances
\* that took place after its time-since-order passed the turnaround
C7_Witness ==
    \E i \in 1..Len(session.investigations) :
        /\ session.investigations[i].status = READY
        /\ TimeSinceOrder(session, i) > session.investigations[i].turnaround
        /\ \E j \in 1..Len(session.investigations) :
              session.investigations[j].status = PROCESSING

\* C8: an event is part of the returned messages of at most one call: no
\* event id is surfaced twice, and every surfaced event has its delivered
\* flag set.
C8_EventSurfacedOnce ==
    /\ \A m, n \in 1..Len(surfaced) : m # n => surfaced[m] # surfaced[n]
    /\ \A m \in 1..Len(surfaced) :
          \E k \in 1..Len(session.events) :
              /\ session.events[k].event_id = surfaced[m]
              /\ session.events[k].delivered

\* an event surfaced by an earlier call is still in the event list while
\* the last call surfaced another event
C8_Witness ==
    /\ Len(surfaced) >= 2
    /\ SurfacedIds(ret.messages) # <<>>
    /\ \E k \in 1..Len(session.events) :
          /\ session.events[k].delivered
          /\ session.events[k].event_id = surfaced[1]
          /\ session.events[k].timestamp < session.elapsed_minutes

\* C9: when the validator reports dangerous with proceed false for an
\* order, process_action returns the intervention messages of the
\* validation and leaves the whole simulation state as it was.
C9_DangerousOrderChangesNothing ==
    [][(/\ ret'.op = "process_action"
        /\ ret'.validation.safety_level = "dangerous"
        /\ ~ret'.validation.proceed)
           => /\ session' = session
              /\ ret'.blocked
              /\ ret'.messages = InterventionMessages(ret'.validation)]_vars

\* an order was refused in a session that already holds a treatment, an
\* investigation and an event
C9_Witness ==
    /\ ret.op = "process_action"
    /\ ret.blocked
    /\ Len(ret.messages) = 3
    /\ session.elapsed_minutes > 0
    /\ Len(session.events) > 0
    /\ Len(session.treatments) + Len(session.investigations) > 0

\* the ways a validation can fail
ValidatorFailures == {"failed", "unparsable"}

C12_SpO2FallsWithinTheHour ==
    (/\ initial_trajectory(session.difficulty, session.vitals_history[1].vitals) = DETERIORATING
     /\ session.vitals_history[1].vitals.spo2 = 85
     /\ session.elapsed_minutes = 60
     /\ session.treatments = <<>>)
        => session.current_vitals.spo2 < 85


\* a treatment was recorded in this step
TreatmentRecorded == Len(session'.treatments) = Len(session.treatments) + 1

\* the treatment recorded in this step
RecordedTreatment == session'.treatments[Len(session'.treatments)]

\* the complications that fired in this step
NewlyFired == session'.fired_complications \ session.fired_complications

\* C13: recording a treatment marked appropriate while the trajectory is
\* Deteriorating leaves the trajectory Stable (checked on the calls in which
\* no complication fires after the treatment), and the trajectory becomes
\* Improving only in a call that records an appropriate treatment while
\* it is Stable
C13_AppropriateTreatmentStabilises ==
    [][/\ (/\ TreatmentRecorded
           /\ RecordedTreatment.is_appropriate
           /\ session.trajectory = DETERIORATING
           /\ NewlyFired = {})
              => session'.trajectory = STABLE
       /\ (session'.trajectory = IMPROVING /\ session.trajectory # IMPROVING)
              => (/\ session.trajectory = STABLE
                  /\ TreatmentRecorded
                  /\ RecordedTreatment.is_appropriate)]_vars

\* an appropriate treatment was recorded as the first call on a
\* Deteriorating session and the session is Stable
C13_Witness ==
    /\ steps = 1
    /\ ret.op = "process_action"
    /\ initial_trajectory(session.difficulty, session.vitals_history[1].vitals) = DETERIORATING
    /\ Len(session.treatments) = 1
    /\ session.treatments[1].is_appropriate
    /\ session.fired_complications = {}
    /\ session.trajectory = STABLE

\* how bad a trajectory is
Severity(trajectory) ==
    CASE trajectory = IMPROVING -> 0
      [] trajectory = STABLE -> 1
      [] trajectory = DETERIORATING -> 2
      [] trajectory = CRITICAL -> 3

\* C14: the trajectory changes only in a call in which a treatment is
\* recorded or a complication fires; it gets worse only when a complication
\* fires or an inappropriate treatment is recorded, and better only when
\* an appropriate treatment is recorded
C14_TrajectoryChangesOnlyByTreatmentOrComplication ==
    [][/\ Severity(session'.trajectory) > Severity(session.trajectory)
              => \/ NewlyFired # {}
                 \/ (TreatmentRecorded /\ ~RecordedTreatment.is_appropriate)
       /\ Severity(session'.trajectory) < Severity(session.trajectory)
              => (TreatmentRecorded /\ RecordedTreatment.is_appropriate)]_vars

\* a clock advance of 30 minutes on a Deteriorating session raised alerts
\* and left the trajectory as it was
C14_Witness ==
    /\ steps = 1
    /\ ret.op = "advance_time"
    /\ session.elapsed_minutes = 30
    /\ session.fired_complications = {}
    /\ session.events # <<>>
    /\ session.current_vitals # session.vitals_history[1].vitals
    /\ session.trajectory = DETERIORATING

\* the urgency tier of the complication of that name
UrgencyOf(name) ==
    LET i == CHOOSE k \in 1..Len(possible_complications) : possible_complications[k].name = name
    IN  possible_complications[i].urgency

\* C15: when a complication of tier critical fires the trajectory is
\* Critical afterwards; when only complications of tier urgent fire the
\* trajectory is Deteriorating or Critical afterwards, and without a
\* treatment in the same call Stable and Improving have become Deteriorating
\* while Deteriorating and Critical are unchanged
C15_EscalationFollowsUrgencyTier ==
    [][NewlyFired # {} =>
          IF \E name \in NewlyFired : UrgencyOf(name) = "critical"
          THEN session'.trajectory = CRITICAL
          ELSE /\ session'.trajectory \in {DETERIORATING, CRITICAL}
               /\ ~TreatmentRecorded =>
                      session'.trajectory = IF session.trajectory \in {STABLE, IMPROVING}
                                            THEN DETERIORATING ELSE session.trajectory]_vars


\* C16: the fan-out always returns, and in what it returns every responder
\* that did not answer within the timeout, or raised, is represented by its
\* fallback response
C16_FanOutAlwaysReturns ==
    /\ [](pool.pc = "returned" =>
             \A i \in 1..Len(pool.agents) :
                 pool.behaviour[i] # "answers"
                     => pool.results[i] = FallbackResponse(pool.agents[i]))
    /\ (pool.pc = "collecting" ~> pool.pc = "returned")

\* C17: what process_agents_parallel returns holds one response per
\* dispatched responder, the i-th response being the i-th responder's
C17_OneResponsePerResponderInOrder ==
    pool.pc = "returned" =>
        /\ Len(pool.results) = Len(pool.agents)
        /\ \A i \in 1..Len(pool.agents) : pool.results[i].agent_type = pool.agents[i]

\* three responders were dispatched, the last one completed first, one of
\* them raised, and the call returned
C17_Witness ==
    /\ pool.pc = "returned"
    /\ Len(pool.agents) = 3
    /\ pool.responses[1][1] = 2
    /\ \E i \in 1..3 : pool.future[i] = "raised"

\* C18: a call of process_action or advance_time with an id that is not
\* registered returns the error "Session not found" with no messages and
\* changes neither the session, nor the set of sessions, nor the random
\* stream, nor what was surfaced
C18_UnknownSessionChangesNothing ==
    [][(ret'.op \in {"process_action", "advance_time"} /\ ret'.session_id \notin registered)
          => /\ ret'.error = "Session not found"
             /\ ret'.messages = <<>>
             /\ session' = session
             /\ registered' = registered
             /\ rng' = rng
             /\ surfaced' = surfaced]_vars

\* advance_time was called with an unknown id on a session that has an
\* investigation under way
C18_Witness ==
    /\ ret.op = "advance_time"
    /\ ret.session_id \notin registered
    /\ ret.error = "Session not found"
    /\ session.investigations # <<>>
    /\ session.elapsed_minutes > 0


\* C19: an order whose text is a spelling of "chest x-ray" creates an
\* investigation of type xray_chest with the label "Chest X-ray PA" and the
\* turnaround of the table, 15 minutes when urgent and 30 otherwise
C19_ChestXrayResolvesForEverySpelling ==
    ret.op = "order_investigation" =>
        LET inv == session.investigations[Len(session.investigations)]
        IN  /\ inv.investigation_type = "xray_chest"
            /\ inv.label = "Chest X-ray PA"
            /\ inv.turnaround = IF inv.is_urgent THEN 15 ELSE 30


\* C20: an investigation whose result was returned in the investigation
\* list of the last response has the status Delivered once the next call
\* is over
C20_ConsumedResultIsDelivered ==
    [][(ret.op \in {"process_action", "advance_time"} /\ ret.error = None)
          => \A i \in 1..Len(session.investigations) :
                 get_investigation_status(session)[i].result # None
                     => session'.investigations[i].status = DELIVERED]_vars


\* the complication of that name
ComplicationNamed(name) ==
    possible_complications[CHOOSE k \in 1..Len(possible_complications) :
                               possible_complications[k].name = name]

\* the probability a tick computes for the complication from the treatment
\* list and the vitals of state s
TickProbability(s, complication) ==
    calculate_probability(complication, s.elapsed_minutes,
                          is_treated(complication, s.treatments),
                          s.current_vitals, s.difficulty)

\* the draws of the stream
TapeDraws == {rng.tape[k] : k \in 1..Len(rng.tape)}

\* C21: in a process_action call that records a treatment, every
\* complication that fires fired on a probability computed from the
\* treatment list that already holds that treatment and from the vitals to
\* which its deltas were already applied
C21_TickSeesTheTreatmentOfItsAction ==
    [][(ret'.op = "process_action" /\ TreatmentRecorded)
          => \A name \in NewlyFired :
                 \E d \in TapeDraws :
                     Fires(TickProbability(session', ComplicationNamed(name)), d)]_vars

\* the last call recorded a treatment that prevents a complication which
\* was in its window and had not fired; a draw of the stream fires it on
\* the untreated probability and not on the treated one, and it did not fire
C21_Witness ==
    /\ ret.op = "process_action"
    /\ ret.action_type = "order_treatment"
    /\ session.treatments # <<>>
    /\ session.treatments[Len(session.treatments)].ordered_at = session.elapsed_minutes
    /\ \E i \in 1..Len(possible_complications) :
          LET complication == possible_complications[i]
          IN  /\ Evaluated(session, complication)
              /\ <<complication.name,
                   session.treatments[Len(session.treatments)].description>> \in TreatedPairs
              /\ \A k \in 1..(Len(session.treatments) - 1) :
                    <<complication.name, session.treatments[k].description>> \notin TreatedPairs
              /\ \E d \in TapeDraws :
                    /\ ~Fires(TickProbability(session, complication), d)
                    /\ Fires(calculate_probability(complication, session.elapsed_minutes, FALSE,
                                                   session.current_vitals, session.difficulty), d)


\* C22: a complication that fires in the tick of a process_action or
\* advance_time call fires at an elapsed time inside its window
C22_TickFiresOnlyInsideTheWindow ==
    [][ret'.op \in {"process_action", "advance_time"}
          => \A name \in NewlyFired :
                 /\ session'.elapsed_minutes >= ComplicationNamed(name).min_t
                 /\ session'.elapsed_minutes <= ComplicationNamed(name).max_t]_vars

\* a tick ran on the stream on which every roll succeeds and fired a
\* complication, while another complication, outside its window, did not fire
C22_Witness ==
    /\ ClockAdvanced(ret)
    /\ rng.tape = <<0>>
    /\ \E k \in 1..Len(session.events) :
          /\ session.events[k].event_type \in {"critical_complication", "urgent_complication"}
          /\ session.events[k].timestamp = session.elapsed_minutes
    /\ \E i \in 1..Len(possible_complications) :
          /\ possible_complications[i].name \notin session.fired_complications
          /\ \/ session.elapsed_minutes < possible_complications[i].min_t
             \/ session.elapsed_minutes > possible_complications[i].max_t


\* the vital a delta of a treatment is added to
EffectField(key) ==
    CASE key = "hr_change" -> "hr"
      [] key = "bp_systolic_change" -> "bp_systolic"
      [] key = "spo2_change" -> "spo2"
      [] key = "rr_change" -> "rr"
      [] key = "temp_change" -> "temp"

\* v clamped to the bounds the end of _evolve_vitals enforces on the field
EvolutionClamp(field, v) ==
    ClampVitals([bp_systolic |-> v, bp_diastolic |-> v, hr |-> v,
                 rr |-> v, temp |-> v, spo2 |-> v])[field]

\* the vitals the clock advance of the last call left: its snapshot
VitalsBeforeTreatment(s) == s.vitals_history[Len(s.vitals_history)].vitals

\* C23: after a call that recorded a treatment, every vital the treatment
\* has a delta for is the value the clock advance left plus the delta,
\* clamped to the bounds enforced after evolution
C23_DeltasAppliedForEveryTreatment ==
    [][(ret'.op = "process_action" /\ TreatmentRecorded)
          => \A key \in DOMAIN RecordedTreatment.effects :
                 session'.current_vitals[EffectField(key)]
                     = EvolutionClamp(EffectField(key),
                                      VitalsBeforeTreatment(session')[EffectField(key)]
                                          + RecordedTreatment.effects[key])]_vars

\* C24: a call that records a treatment marked inappropriate while the
\* trajectory is not Critical leaves the trajectory worse than it was
C24_InappropriateTreatmentWorsens ==
    [][(ret'.op = "process_action" /\ TreatmentRecorded
        /\ ~RecordedTreatment.is_appropriate /\ session.trajectory # CRITICAL)
          => Severity(session'.trajectory) > Severity(session.trajectory)]_vars

\* C25: a clock advance made while the trajectory is Deteriorating or
\* Critical, in a call that records no treatment, does not raise SpO2 or
\* the systolic pressure and does not lower the heart or respiratory rate
C25_DriftOnlyTowardsWorse ==
    [][(ClockAdvanced(ret') /\ ~TreatmentRecorded
        /\ session.trajectory \in {DETERIORATING, CRITICAL})
          => /\ session'.current_vitals.spo2 <= session.current_vitals.spo2
             /\ session'.current_vitals.bp_systolic <= session.current_vitals.bp_systolic
             /\ session'.current_vitals.hr >= session.current_vitals.hr
             /\ session'.current_vitals.rr >= session.current_vitals.rr]_vars

\* the events of the session with this title
EventsTitled(s, title) == {k \in 1..Len(s.events) : s.events[k].title = <<"", title>>}

\* C26: the session never holds more than one senior-doctor no-treatment
\* warning
C26_SeniorWarningAtMostOnce ==
    Cardinality(EventsTitled(session, "Senior Doctor Concern")) <= 1

NurseAlertTitles == {"Critical SpO2 Alert", "Tachycardia Alert", "Hypotension Alert"}

\* the condition _check_patient_events tests for the alert on these vitals
AlertCondition(title, v) ==
    CASE title = "Critical SpO2 Alert" -> v.spo2 < 88
      [] title = "Tachycardia Alert" -> v.hr > 140
      [] title = "Hypotension Alert" -> v.bp_systolic < 80

\* C27: the session never holds more than one nurse alert of each of the
\* three kinds
C27_NurseAlertsAtMostOnceEach ==
    \A title \in NurseAlertTitles : Cardinality(EventsTitled(session, title)) <= 1

\* a clock advance raised the alert (its snapshot shows the vital beyond
\* the threshold), a later snapshot shows the vital back on the safe side,
\* and the last clock advance left it beyond the threshold again
Recrossed(s, title) ==
    /\ EventsTitled(s, title) # {}
    /\ \E i \in 2..Len(s.vitals_history) : \E j \in (i + 1)..(Len(s.vitals_history) - 1) :
        /\ AlertCondition(title, s.vitals_history[i].vitals)
        /\ ~AlertCondition(title, s.vitals_history[j].vitals)
        /\ AlertCondition(title, s.vitals_history[Len(s.vitals_history)].vitals)

C27_Witness ==
    /\ ClockAdvanced(ret)
    /\ \E title \in NurseAlertTitles : Recrossed(session, title)

\* the newest entry of the vitals history
LastSnapshot(s) == s.vitals_history[Len(s.vitals_history)]

\* the call added exactly one snapshot to the history
OneSnapshotAdded == Len(session'.vitals_history) = Len(session.vitals_history) + 1

\* C28 as stated: after every call that advanced the clock the history has
\* one snapshot more and the newest snapshot carries the current elapsed
\* minutes and the current vitals
C28_LastSnapshotIsCurrent ==
    [][ClockAdvanced(ret') => (OneSnapshotAdded /\ LastSnapshot(session') = Snapshot(session'))]_vars

\* C28: after every call that advanced the clock the history has one
\* snapshot more, the newest snapshot carries the current elapsed minutes,
\* and the current vitals are the snapshot's vitals, changed by the deltas
\* of the treatment when the call recorded an appropriate treatment
C28_LastSnapshotIsTheClockAdvance ==
    [][ClockAdvanced(ret')
          => /\ OneSnapshotAdded
             /\ LastSnapshot(session').time = session'.elapsed_minutes
             /\ session'.current_vitals
                    = IF TreatmentRecorded /\ RecordedTreatment.is_appropriate
                      THEN ApplyChanges(LastSnapshot(session').vitals, RecordedTreatment.effects)
                      ELSE LastSnapshot(session').vitals]_vars

\* a call recorded a treatment and left vitals that differ from the newest
\* snapshot
C28_Witness ==
    /\ ClockAdvanced(ret)
    /\ ret.action_type = "order_treatment"
    /\ session.treatments # <<>>
    /\ session.treatments[Len(session.treatments)].ordered_at = session.elapsed_minutes
    /\ LastSnapshot(session).time = session.elapsed_minutes
    /\ LastSnapshot(session).vitals # session.current_vitals

\* the turnaround of the k-th investigation has elapsed
TurnaroundElapsed(s, k) ==
    s.elapsed_minutes - s.investigations[k].ordered_at >= s.investigations[k].turnaround

\* C29: every investigation of the session is Ready exactly when its
\* turnaround has elapsed since it was ordered, and the status list gives
\* its result exactly then
C29_ReadyExactlyWhenTurnaroundElapsed ==
    \A k \in 1..Len(session.investigations) :
        /\ (session.investigations[k].status = READY) <=> TurnaroundElapsed(session, k)
        /\ (get_investigation_status(session)[k].result # None) <=> TurnaroundElapsed(session, k)

\* the ids of the events the messages of a response surface
ReturnedEventIds(r) == {SurfacedIds(r.messages)[m] : m \in 1..Len(SurfacedIds(r.messages))}

\* positions of the events the step appended to the event list
GeneratedEvents == (Len(session.events) + 1)..Len(session'.events)

IsCall(r) == r.op \in {"process_action", "advance_time"}

\* every event the step generated is among the messages of its response
\* and has its flag set
GeneratedAreSurfaced ==
    \A k \in GeneratedEvents :
        /\ session'.events[k].event_id \in ReturnedEventIds(ret')
        /\ session'.events[k].delivered

NothingPending(s) == \A k \in 1..Len(s.events) : s.events[k].delivered

\* C30 as stated: every event generated during a process_action or
\* advance_time call is surfaced in the messages of that call, and when the
\* call returns no event of the session is left undelivered
C30_GeneratedEventsSurfacedInTheCall ==
    [][IsCall(ret') => (GeneratedAreSurfaced /\ NothingPending(session'))]_vars

\* C30: every event generated during a process_action or advance_time call
\* is surfaced in the messages of that call with its flag set, and the only
\* events undelivered when the call returns are events that were on the
\* list, undelivered, before it
C30_CallsSurfaceWhatTheyGenerate ==
    [][IsCall(ret')
          => /\ GeneratedAreSurfaced
             /\ \A k \in 1..Len(session'.events) :
                    ~session'.events[k].delivered
                        => (k <= Len(session.events) /\ ~session.events[k].delivered)]_vars

\* the last call generated and surfaced two events of different types
\* while an event a forced complication put on the list is still pending
C30_Witness ==
    /\ IsCall(ret)
    /\ ~NothingPending(session)
    /\ \E k, n \in 1..Len(session.events) :
          /\ session.events[k].event_type # session.events[n].event_type
          /\ {session.events[k].event_id, session.events[n].event_id} \subseteq ReturnedEventIds(ret)
          /\ session.events[k].timestamp = session.elapsed_minutes
          /\ session.events[n].timestamp = session.elapsed_minutes

====
